---- MODULE Spec2Model ----
(***************************************************************************)
(* A model of the logic-simulator front end: the Parser of src/parse.py    *)
(* driven by the token stream the Scanner of src/scanner.py delivers, and  *)
(* the Scanner itself, reading a text character by character.              *)
(*                                                                         *)
(* Names are modelled as sequences of one-character strings, so that the   *)
(* pin-name pattern of check_inputs_name and the int() conversions of the  *)
(* parser are computed character by character, as the code does.           *)
(***************************************************************************)
EXTENDS Integers, Sequences, FiniteSets, TLC

VARIABLES
    src,                \* the definition file, as the statements it is made of
    toks,               \* the symbols Scanner.get_symbol delivers for it, in order
    pos,                \* index in toks of Parser.symbol (the lookahead)
    names,              \* Names: the set of interned name strings
    errors,             \* Parser.errors
    scanner_errors,     \* Scanner.errors
    stored_device_list, \* Parser.stored_device_list
    device_reqs,        \* requests issued to Devices.make_gate/make_d_type/...
    conn_reqs,          \* requests issued to Network.make_connection
    monitor_reqs,       \* requests issued to Monitors
    pc,                 \* where parse_network stands
    i,                  \* the loop counter of parse_devices / parse_conns
    device_list,        \* local of parse_conns_line
    ports_list,         \* local of parse_conns_line
    line_from,          \* position and log sizes at which the current
                        \* parse_conns_line call started
    line_log,           \* one entry per statement-parser call that returned
    spin,               \* source-loop iterations since a symbol was consumed
    exception,          \* the exception that ended the pass, "" while none
    result,             \* what parse_network returned, "" before it returns
    text,               \* the characters of the file the Scanner reads
    fpos,               \* how many of them self.file.read(1) has delivered
    current_character,  \* Scanner.current_character, "" at the end of the file
    current_line,       \* Scanner.current_line
    current_position,   \* Scanner.current_position
    returned,           \* one entry per get_symbol call that returned
    sc_pc               \* "ready", or "hung" in a call that does not return

vars == <<src, toks, pos, names, errors, scanner_errors, stored_device_list, device_reqs,
          conn_reqs, monitor_reqs, pc, i, device_list, ports_list, line_from, line_log,
          spin, exception, result, text, fpos, current_character,
          current_line, current_position, returned, sc_pc>>

\* the parser's variables but names and scanner_errors, and the scanner's
parservars == <<src, toks, pos, errors, stored_device_list, device_reqs,
                conn_reqs, monitor_reqs, pc, i, device_list, ports_list, line_from,
                line_log, spin, exception, result>>
scanvars == <<text, fpos, current_character, current_line, current_position,
              returned, sc_pc>>

-----------------------------------------------------------------------------
(* Bounds of the model *)

\* statements per section in the sources explored
MaxStmts == 2
\* source-loop iterations explored after the loop stopped consuming symbols
MaxSpin == 2

\* pieces a scanned text is made of
MaxPieces == 3
\* get_symbol calls explored after a call that returned what the call before
\* it returned, from the same place
MaxRepeat == 2

(* Program constants *)

\* the iteration bound of parse_devices and parse_conns
LoopBound == 500
\* a device created without parameter (DTYPE) carries this in its request
NoParam == -1

-----------------------------------------------------------------------------
(* Symbol types, SymbolList *)

HEADING == "HEADING"
LOGIC == "LOGIC"
NUMBER == "NUMBER"
NAME == "NAME"
EQUAL == "EQUAL"
DOT == "DOT"
COMMA == "COMMA"
SEMICOLON == "SEMICOLON"
OPEN_BRACKET == "OPEN_BRACKET"
CLOSE_BRACKET == "CLOSE_BRACKET"
OPEN_SQUARE_BRACKET == "OPEN_SQUARE_BRACKET"
CLOSE_SQUARE_BRACKET == "CLOSE_SQUARE_BRACKET"
EOF == "EOF"

(* Error codes used by the parser *)

INVALID_HEADER == "INVALID_HEADER"
INVALID_NAME == "INVALID_NAME"
NAME_DEFINED == "NAME_DEFINED"
INVALID_LOGIC_GATE == "INVALID_LOGIC_GATE"
INVALID_NUMBER == "INVALID_NUMBER"
SYNTAX_ERROR == "SYNTAX_ERROR"
OVERFLOW_ERROR == "OVERFLOW_ERROR"
INVALID_PIN == "INVALID_PIN"
INVALID_DEVICE == "INVALID_DEVICE"

-----------------------------------------------------------------------------
(* Texts *)

sDevices == <<"d","e","v","i","c","e","s">>
sConns == <<"c","o","n","n","s">>
sMonit == <<"m","o","n","i","t">>
sAND == <<"A","N","D">>
sNAND == <<"N","A","N","D">>
sOR == <<"O","R">>
sNOR == <<"N","O","R">>
sXOR == <<"X","O","R">>
sDTYPE == <<"D","T","Y","P","E">>
sCLOCK == <<"C","L","O","C","K">>
sSWITCH == <<"S","W","I","T","C","H">>
sQ == <<"Q">>
sQBAR == <<"Q","B","A","R">>
sCLK == <<"C","L","K">>
sDATA == <<"D","A","T","A">>
sSET == <<"S","E","T">>
sCLEAR == <<"C","L","E","A","R">>
sEOF == <<"E","O","F">>

Digits == {"0","1","2","3","4","5","6","7","8","9"}

DigitVal(c) ==
    CASE c = "0" -> 0 [] c = "1" -> 1 [] c = "2" -> 2 [] c = "3" -> 3
      [] c = "4" -> 4 [] c = "5" -> 5 [] c = "6" -> 6 [] c = "7" -> 7
      [] c = "8" -> 8 [] c = "9" -> 9

DigitChar(d) ==
    CASE d = 0 -> "0" [] d = 1 -> "1" [] d = 2 -> "2" [] d = 3 -> "3"
      [] d = 4 -> "4" [] d = 5 -> "5" [] d = 6 -> "6" [] d = 7 -> "7"
      [] d = 8 -> "8" [] d = 9 -> "9"

\* the decimal text of a number, as it stands in the file
RECURSIVE Decimal(_)
Decimal(n) == IF n < 10 THEN <<DigitChar(n)>>
              ELSE Append(Decimal(n \div 10), DigitChar(n % 10))

\* int(text) succeeds on a non-empty run of digits
IsDigits(s) == Len(s) > 0 /\ \A k \in 1..Len(s) : s[k] \in Digits

RECURSIVE IntOf(_)
IntOf(s) == IF Len(s) = 0 THEN 0
            ELSE 10 * IntOf(SubSeq(s, 1, Len(s) - 1)) + DigitVal(s[Len(s)])

Tail1(s) == SubSeq(s, 2, Len(s))

-----------------------------------------------------------------------------
(* Symbols *)

Sym(t, n, v) == [type |-> t, name |-> n, val |-> v]

tName(n) == Sym(NAME, n, 0)
tLogic(n) == Sym(LOGIC, n, 0)
tHeading(n) == Sym(HEADING, n, 0)
tNum(v) == Sym(NUMBER, Decimal(v), v)
tEQ == Sym(EQUAL, <<"=">>, 0)
tDOT == Sym(DOT, <<".">>, 0)
tCOMMA == Sym(COMMA, <<",">>, 0)
tSEMI == Sym(SEMICOLON, <<";">>, 0)
tOB == Sym(OPEN_BRACKET, <<"(">>, 0)
tCB == Sym(CLOSE_BRACKET, <<")">>, 0)
tOSB == Sym(OPEN_SQUARE_BRACKET, <<"[">>, 0)
tCSB == Sym(CLOSE_SQUARE_BRACKET, <<"]">>, 0)
tEOF == Sym(EOF, sEOF, 0)

-----------------------------------------------------------------------------
(* Scanner: classification of a word, and the symbol stream *)

heading_list == {sDevices, sConns, sMonit}
logic_list == {sDTYPE, sNAND, sNOR, sXOR, sAND, sOR, sCLOCK, sSWITCH}

\* get_symbol on a maximal run of letters and digits
Classify(w) ==
    IF IsDigits(w) THEN tNum(IntOf(w))
    ELSE IF w \in heading_list THEN tHeading(w)
    ELSE IF w \in logic_list THEN tLogic(w)
    ELSE tName(w)

\* str.lower on the letters of the names in use
Lower(c) ==
    CASE c = "A" -> "a" [] c = "B" -> "b" [] c = "C" -> "c" [] c = "D" -> "d"
      [] c = "E" -> "e" [] c = "F" -> "f" [] c = "G" -> "g" [] c = "H" -> "h"
      [] c = "I" -> "i" [] c = "J" -> "j" [] c = "K" -> "k" [] c = "L" -> "l"
      [] c = "M" -> "m" [] c = "N" -> "n" [] c = "O" -> "o" [] c = "P" -> "p"
      [] c = "Q" -> "q" [] c = "R" -> "r" [] c = "S" -> "s" [] c = "T" -> "t"
      [] c = "U" -> "u" [] c = "V" -> "v" [] c = "W" -> "w" [] c = "X" -> "x"
      [] c = "Y" -> "y" [] c = "Z" -> "z" [] OTHER -> c

LowerWord(w) == [k \in 1..Len(w) |-> Lower(w[k])]

\* self.keywords: heading_list + logic_list, all in lower case
keywords == {LowerWord(w) : w \in heading_list \cup logic_list}

\* the codes of the scanner's own diagnostics
SC_INVALID_NAME == "InvalidName"
SC_INVALID_CHARACTER == "InvalidCharacter"

\* the keyword test without the lower-casing of the name
ReservedNameExact(sym) == sym.type = NAME /\ sym.name \in keywords

\* a NAME whose lower-cased text is a keyword
ReservedName(sym) == sym.type = NAME /\ LowerWord(sym.name) \in keywords

\* what get_symbol appends to Scanner.errors when it returns the symbol sym
ScanErrors(sym) ==
    IF ReservedName(sym)
    THEN <<[code |-> SC_INVALID_NAME, msg |-> "Invalid name", name |-> sym.name]>>
    ELSE <<>>

\* the symbol get_symbol returned at its p-th call: past the end of the file
\* every call returns EOF
SymAt(p) == IF p <= Len(toks) THEN toks[p] ELSE tEOF

\* names.lookup([name_string]) inside get_symbol: LOGIC and NAME are interned
Interned(sym) == IF sym.type \in {LOGIC, NAME} THEN {sym.name} ELSE {}

-----------------------------------------------------------------------------
(* Scanner: the characters.  sc = [fpos, ch, line, col] is the cursor:
   characters read, current_character, current_line, current_position *)

\* the type of the symbol get_symbol returns for a character it cannot use
NONE == "None"

Letters ==
    {"a","b","c","d","e","f","g","h","i","j","k","l","m","n","o","p","q","r",
     "s","t","u","v","w","x","y","z",
     "A","B","C","D","E","F","G","H","I","J","K","L","M","N","O","P","Q","R",
     "S","T","U","V","W","X","Y","Z"}

isalpha(c) == c \in Letters
isdigit(c) == c \in Digits
isalnum(c) == isalpha(c) \/ isdigit(c)
isspace(c) == c \in {" ", "\n", "\t"}

\* Scanner.advance
advance(sc) ==
    LET more == sc.fpos < Len(text)
        c == IF more THEN text[sc.fpos + 1] ELSE ""
    IN [fpos |-> IF more THEN sc.fpos + 1 ELSE sc.fpos,
        ch |-> c,
        line |-> IF c = "\n" THEN sc.line + 1 ELSE sc.line,
        col |-> IF c = "\n" THEN 0 ELSE sc.col + 1]

\* Scanner.skip_spaces
RECURSIVE skip_spaces(_)
skip_spaces(sc) == IF isspace(sc.ch) THEN skip_spaces(advance(sc)) ELSE sc

\* the loop of get_symbol over a comment: it ends on a line feed, and does
\* not end when the file ends first
RECURSIVE SkipComment(_)
SkipComment(sc) ==
    IF sc.ch = "\n" THEN [hang |-> FALSE, sc |-> sc]
    ELSE IF sc.ch = "" THEN [hang |-> TRUE, sc |-> sc]
    ELSE SkipComment(advance(sc))

\* Scanner.get_name: [name, sc]
RECURSIVE get_name(_, _)
get_name(sc, name) ==
    IF isalnum(sc.ch) THEN get_name(advance(sc), Append(name, sc.ch))
    ELSE [name |-> name, sc |-> sc]

\* Scanner.get_number: [number, sc], number the digits read
RECURSIVE get_number(_, _)
get_number(sc, number) ==
    IF isdigit(sc.ch) THEN get_number(advance(sc), Append(number, sc.ch))
    ELSE [number |-> number, sc |-> sc]

\* the symbols of one character
Punctuation(c) ==
    CASE c = "=" -> tEQ [] c = "." -> tDOT [] c = "," -> tCOMMA
      [] c = ";" -> tSEMI [] c = "(" -> tOB [] c = ")" -> tCB
      [] c = "[" -> tOSB [] c = "]" -> tCSB

\* what a get_symbol call gives: the cursor it leaves, the symbol, the
\* diagnostics it appends, the index of the character the symbol starts at
Got(sc, sym, errs, from) ==
    [hang |-> FALSE, sc |-> sc, sym |-> sym, errs |-> errs, from |-> from]

\* the end-of-file branch with the advance the one-character branches make
AtEndAdvancing(sc) == Got(advance(sc), tEOF, <<>>, sc.fpos)

\* get_symbol at the end of the file
AtEnd(sc) == Got(sc, tEOF, <<>>, sc.fpos)

\* file.readline() with p characters of the file read: up to and with the
\* next line feed, or up to the end of the file
RECURSIVE readline(_)
readline(p) ==
    IF p >= Len(text) THEN <<>>
    ELSE IF text[p + 1] = "\n" THEN <<"\n">>
    ELSE <<text[p + 1]>> \o readline(p + 1)

\* the loop of get_current_line: n lines are read from position p on, the
\* last of them is kept
RECURSIVE ReadLines(_, _, _)
ReadLines(p, n, line) ==
    IF n = 0 THEN line
    ELSE ReadLines(p + Len(readline(p)), n - 1, readline(p))

\* Scanner.get_current_line
get_current_line(sc) == ReadLines(0, sc.line + 1, <<>>)

\* the diagnostic of the scanner, with the line, the column and the line
\* content it reports
Located(e, line, col, content) ==
    [code |-> e.code, msg |-> e.msg, name |-> e.name, line |-> line,
     col |-> col, content |-> content]

\* Scanner.get_symbol
get_symbol(sc) ==
    LET s1 == skip_spaces(sc)
        cm == IF s1.ch = "#" THEN SkipComment(advance(s1))
              ELSE [hang |-> FALSE, sc |-> s1]
        s2 == skip_spaces(cm.sc)
    IN IF cm.hang
       THEN [hang |-> TRUE, sc |-> cm.sc, sym |-> Sym(NONE, <<>>, 0),
             errs |-> <<>>, from |-> cm.sc.fpos]
       ELSE IF isalpha(s2.ch)
       THEN LET r == get_name(s2, <<>>)
                sym == Classify(r.name)
            IN Got(r.sc, sym,
                   [k \in 1..Len(ScanErrors(sym)) |->
                       Located(ScanErrors(sym)[k], r.sc.line,
                               r.sc.col - Len(r.name),
                               get_current_line(r.sc))],
                   s2.fpos)
       ELSE IF isdigit(s2.ch)
       THEN LET r == get_number(s2, <<>>)
            IN Got(r.sc, tNum(IntOf(r.number)), <<>>, s2.fpos)
       ELSE IF s2.ch \in {"=", ".", ",", ";", "(", ")", "[", "]"}
       THEN Got(advance(s2), Punctuation(s2.ch), <<>>, s2.fpos)
       ELSE IF s2.ch = ""
       THEN AtEnd(s2)
       ELSE Got(s2, Sym(NONE, <<>>, 0),
                <<Located([code |-> SC_INVALID_CHARACTER,
                           msg |-> "Invalid character", name |-> <<s2.ch>>],
                          s2.line, s2.col, <<s2.ch>>)>>,
                s2.fpos)

-----------------------------------------------------------------------------
(* The parser's data, threaded through the operators that model its methods.
   st = [pos, names, errors, stored, dreqs, creqs, exc, fab, serr]; fab holds the
   statuses Network.make_connection answers the coming requests with *)

Cur(st) == SymAt(st.pos)

\* an advance that puts the name it steps over among the pending names
AdvanceStoring(st) ==
    LET p == IF st.pos <= Len(toks) THEN st.pos + 1 ELSE st.pos
    IN [st EXCEPT !.pos = p, !.names = @ \cup Interned(SymAt(p)),
                  !.serr = IF st.pos <= Len(toks)
                           THEN @ \o ScanErrors(SymAt(p)) ELSE @,
                  !.stored = IF Cur(st).type = NAME
                             THEN Append(@, Cur(st).name) ELSE @]

\* Parser.advance: self.symbol = self.scanner.get_symbol()
Advance(st) ==
    LET p == IF st.pos <= Len(toks) THEN st.pos + 1 ELSE st.pos
    IN [st EXCEPT !.pos = p, !.names = @ \cup Interned(SymAt(p)),
                  !.serr = IF st.pos <= Len(toks)
                           THEN @ \o ScanErrors(SymAt(p)) ELSE @]

\* add_error putting the new diagnostic in front of the recorded ones
AddErrorInFront(st, code, msg) ==
    [st EXCEPT !.errors = <<[code |-> code, msg |-> msg, at |-> st.pos]>> \o @]

\* Parser.add_error: the diagnostic carries the scanner's position, which is
\* that of the lookahead symbol
AddError(st, code, msg) ==
    [st EXCEPT !.errors = Append(@, [code |-> code, msg |-> msg, at |-> st.pos])]

\* names.query(name_string): an identity, or None for a string never interned
Query(st, name) == name \in st.names

\* an unhandled exception ends the pass
Raise(st, what) == [st EXCEPT !.exc = what]

\* Network.NO_ERROR, and the statuses make_connection may answer with: the
\* fabric is an external collaborator, which of them it answers is its choice
NO_ERROR == "NO_ERROR"
Statuses == {NO_ERROR, "FABRIC_ERROR"}

-----------------------------------------------------------------------------
(* Devices section *)

\* validate_device_name: [ok, st]
validate_device_name(st, dl) ==
    IF Cur(st).type = NAME
    THEN IF (\A k \in 1..Len(dl) : dl[k] # Cur(st).name)
            /\ (\A k \in 1..Len(st.stored) : st.stored[k] # Cur(st).name)
         THEN [ok |-> TRUE, st |-> st]
         ELSE [ok |-> FALSE,
               st |-> AddError(st, NAME_DEFINED, "Name already defined")]
    ELSE [ok |-> FALSE, st |-> AddError(st, INVALID_NAME, "Expected name")]

\* the request(s) of one production: one per name of device_list, in order
RECURSIVE MakeDevices(_, _, _, _)
MakeDevices(st, gate, dl, par) ==
    IF dl = <<>> THEN st
    ELSE MakeDevices(
            [st EXCEPT !.dreqs = Append(@, [id |-> Head(dl), kind |-> gate,
                                             par |-> par, at |-> st.pos])],
            gate, Tail(dl), par)

\* the range policy with the upper bound of the gates off by one
OutOfRangeLax(gate, n) ==
    CASE gate \in {sAND, sNAND, sOR, sNOR} -> n < 1 \/ n > 17
      [] gate = sXOR -> n # 2
      [] gate = sCLOCK -> n < 1
      [] gate = sSWITCH -> n < 0 \/ n > 1
      [] OTHER -> FALSE

\* the range policy of each production of parse_logic_gate
OutOfRange(gate, n) ==
    CASE gate \in {sAND, sNAND, sOR, sNOR} -> n < 1 \/ n > 16
      [] gate = sXOR -> n # 2
      [] gate = sCLOCK -> n < 1
      [] gate = sSWITCH -> n < 0 \/ n > 1
      [] OTHER -> FALSE

RangeMessage(gate) ==
    CASE gate \in {sAND, sNAND, sOR, sNOR} -> "Number of inputs must be between 1 and 16"
      [] gate = sXOR -> "Number of inputs must be 2"
      [] gate = sCLOCK -> "Clock period must be greater than 0"
      [] OTHER -> "Output must be between 0 or 1"

\* a default for the clock as well
HasDefaultClock(gate) == gate \in {sAND, sNAND, sOR, sNOR, sXOR, sSWITCH, sCLOCK}

\* the productions that accept a bare ';' and the parameter they then use
HasDefault(gate) == gate \in {sAND, sNAND, sOR, sNOR, sXOR, sSWITCH}

\* one default for every production
DefaultParZero(gate) == 0

DefaultPar(gate) == IF gate = sSWITCH THEN 0 ELSE 2

\* the parenthesised-parameter branch shared by seven productions
ParenParameter(st, gate, dl) ==
    IF Cur(st).type = OPEN_BRACKET
    THEN LET s1 == Advance(st) IN
         IF Cur(s1).type = NUMBER
         THEN LET n == Cur(s1).val
                  s2 == IF OutOfRange(gate, n)
                        THEN AddError(s1, INVALID_NUMBER, RangeMessage(gate))
                        ELSE s1
                  s3 == Advance(s2)
              IN IF Cur(s3).type = CLOSE_BRACKET
                 THEN LET s4 == Advance(s3) IN
                      IF Cur(s4).type = SEMICOLON
                      THEN MakeDevices(s4, gate, dl, n)
                      ELSE AddError(s4, SYNTAX_ERROR, "Expected ';'")
                 ELSE AddError(s3, SYNTAX_ERROR, "Expected ')'")
         ELSE AddError(s1, SYNTAX_ERROR, "Expected number")
    ELSE AddError(st, SYNTAX_ERROR, "Expected '('")

parse_logic_gate(st, gate, dl) ==
    IF gate = sDTYPE
    THEN IF Cur(st).type = SEMICOLON
         THEN MakeDevices(st, gate, dl, NoParam)
         ELSE AddError(st, SYNTAX_ERROR, "Expected ';'")
    ELSE IF HasDefault(gate) /\ Cur(st).type = SEMICOLON
    THEN MakeDevices(st, gate, dl, DefaultPar(gate))
    ELSE ParenParameter(st, gate, dl)

\* the comma-list loop of parse_device_line: [valid, dl, st]
RECURSIVE NameList(_, _)
NameList(st, dl) ==
    IF Cur(st).type # COMMA THEN [valid |-> TRUE, dl |-> dl, st |-> st]
    ELSE LET s1 == Advance(st) IN
         IF Cur(s1).type = EQUAL THEN [valid |-> TRUE, dl |-> dl, st |-> s1]
         ELSE LET v == validate_device_name(s1, dl) IN
              IF v.ok
              THEN NameList(
                      Advance([s1 EXCEPT !.stored = Append(@, Cur(s1).name)]),
                      Append(dl, Cur(s1).name))
              ELSE [valid |-> FALSE, dl |-> dl, st |-> v.st]

parse_device_line(st) ==
    LET v == validate_device_name(st, <<>>) IN
    IF ~v.ok THEN v.st
    ELSE LET l == NameList(Advance(st), <<Cur(st).name>>) IN
         IF ~l.valid THEN l.st
         ELSE IF Cur(l.st).type = EQUAL
         THEN LET s1 == Advance(l.st) IN
              IF Cur(s1).type = LOGIC
              THEN Advance(parse_logic_gate(Advance(s1), Cur(s1).name, l.dl))
              ELSE AddError(s1, INVALID_LOGIC_GATE, "Expected logic gate")
         ELSE AddError(l.st, SYNTAX_ERROR, "Expected '='")

-----------------------------------------------------------------------------
(* Device registry, as the parser uses it *)

\* the number of input pins of a device made with this kind and parameter
InputCount(kind, par) ==
    IF kind \in {sAND, sNAND, sOR, sNOR, sXOR} THEN par
    ELSE IF kind = sDTYPE THEN 4
    ELSE 0

HasDevice(st, id) == \E k \in 1..Len(st.dreqs) : st.dreqs[k].id = id

\* devices.get_device(id).inputs, for a device that exists
DeviceInputs(st, id) ==
    LET k == CHOOSE k \in 1..Len(st.dreqs) :
                 /\ st.dreqs[k].id = id
                 /\ \A j \in 1..(k - 1) : st.dreqs[j].id # id
    IN InputCount(st.dreqs[k].kind, st.dreqs[k].par)

-----------------------------------------------------------------------------
(* Connections section *)

\* re.match(r'^I.*([1-9]|1[0-6])$', string)
MatchesPattern(s) ==
    /\ Len(s) >= 2
    /\ s[1] = "I"
    /\ \/ s[Len(s)] \in Digits \ {"0"}
       \/ /\ Len(s) >= 3
          /\ s[Len(s) - 1] = "1"
          /\ s[Len(s)] \in {"0","1","2","3","4","5","6"}

dtype_pins == {sCLK, sDATA, sQ, sQBAR}

\* check_inputs_name(self.symbol.name): [ok, st]. The name of a NUMBER symbol
\* is an int, on which re.match raises TypeError
check_inputs_name(st) ==
    IF Cur(st).type = NUMBER
    THEN [ok |-> FALSE, st |-> Raise(st, "TypeError")]
    ELSE IF MatchesPattern(Cur(st).name) \/ Cur(st).name \in dtype_pins
    THEN [ok |-> TRUE, st |-> st]
    ELSE [ok |-> FALSE,
          st |-> AddError(st, INVALID_NAME, "Invalid name for device input")]

\* validate_device_name_for_conns: [ok, st]
validate_device_name_for_conns(st) ==
    IF Query(st, Cur(st).name)
    THEN [ok |-> TRUE, st |-> st]
    ELSE [ok |-> FALSE, st |-> AddError(st, INVALID_NAME, "Invalid device name")]

\* parse_conns_line up to its while loop: [loop, dl, pl, st], loop telling
\* whether the loop over the sources is entered
ConnsLineHead(st) ==
    LET v == validate_device_name_for_conns(st) IN
    IF ~v.ok
    THEN [loop |-> FALSE, dl |-> <<>>, pl |-> <<>>,
          st |-> AddError(v.st, INVALID_DEVICE,
                          "Device name not defined in 'devices'")]
    ELSE LET s1 == Advance(st)
             s2 == Advance(s1)
             tag == IF Cur(s1).type # DOT THEN [pl |-> <<>>, st |-> s1]
                    ELSE IF Cur(s2).name \in {sQ, sQBAR}
                    THEN [pl |-> <<Cur(s2).name>>, st |-> Advance(s2)]
                    ELSE [pl |-> <<>>,
                          st |-> AddError(s2, INVALID_PIN,
                                 "Invalid name for device output of DTYPE")]
         IN IF Cur(tag.st).type = EQUAL
            THEN [loop |-> TRUE, dl |-> <<Cur(st).name>>, pl |-> tag.pl,
                  st |-> Advance(tag.st)]
            ELSE [loop |-> FALSE, dl |-> <<Cur(st).name>>, pl |-> tag.pl,
                  st |-> tag.st]

\* one iteration of the body of the while loop: [brk, dl, pl, st]
SourceStep(st, dl, pl) ==
    LET v == validate_device_name_for_conns(st) IN
    IF ~v.ok THEN [brk |-> FALSE, dl |-> dl, pl |-> pl, st |-> v.st]
    ELSE LET dl1 == Append(dl, Cur(st).name)
             s1 == Advance(st)
             s2 == Advance(s1)
             c == check_inputs_name(s2)
             s3 == Advance(s2)
         IN IF Cur(s1).type # DOT
            THEN [brk |-> FALSE, dl |-> dl1, pl |-> pl, st |-> s1]
            ELSE IF ~c.ok
            THEN [brk |-> FALSE, dl |-> dl1, pl |-> pl, st |-> c.st]
            ELSE LET pl1 == Append(pl, Cur(s2).name) IN
                 IF Cur(s3).type = SEMICOLON
                 THEN [brk |-> TRUE, dl |-> dl1, pl |-> pl1, st |-> Advance(s3)]
                 ELSE IF Cur(s3).type = COMMA
                 THEN [brk |-> FALSE, dl |-> dl1, pl |-> pl1, st |-> Advance(s3)]
                 ELSE [brk |-> FALSE, dl |-> dl1, pl |-> pl1, st |-> s3]

\* the round of the for loop without the diagnostic for a missing device
ConnectOneSilent(st, out, outpin, dev, port) ==
    IF port \in {sCLK, sDATA, sSET, sCLEAR}
    THEN [st EXCEPT !.creqs = Append(@,
            [out |-> out, outpin |-> outpin, in |-> dev, inpin |-> port,
             at |-> st.pos, status |-> Head(st.fab)]),
                    !.fab = Tail(@)]
    ELSE IF ~IsDigits(Tail1(port)) THEN Raise(st, "ValueError")
    ELSE IF HasDevice(st, dev)
    THEN IF IntOf(Tail1(port)) - 1 < DeviceInputs(st, dev)
         THEN AddError(st, INVALID_PIN, "Invalid pin for device input")
         ELSE Raise(st, "IndexError")
    ELSE st

\* one round of the for loop over input_devices: the source dev with the
\* pin text port
ConnectOne(st, out, outpin, dev, port) ==
    IF port \in {sCLK, sDATA, sSET, sCLEAR}
    THEN [st EXCEPT !.creqs = Append(@,
            [out |-> out, outpin |-> outpin, in |-> dev, inpin |-> port,
             at |-> st.pos, status |-> Head(st.fab)]),
                    !.fab = Tail(@)]
    ELSE IF ~IsDigits(Tail1(port)) THEN Raise(st, "ValueError")
    ELSE IF HasDevice(st, dev)
    THEN IF IntOf(Tail1(port)) - 1 < DeviceInputs(st, dev)
         THEN AddError(st, INVALID_PIN, "Invalid pin for device input")
         ELSE Raise(st, "IndexError")
    ELSE AddError(st, INVALID_DEVICE, "Device not defined in 'devices'")

\* the for loop over input_devices, from its k-th round on
RECURSIVE Connect(_, _, _, _, _, _)
Connect(st, out, outpin, ins, pl, k) ==
    IF k > Len(ins) THEN st
    ELSE IF k > Len(pl) THEN Raise(st, "IndexError")
    ELSE LET s1 == ConnectOne(st, out, outpin, ins[k], pl[k]) IN
         IF s1.exc # "" THEN s1
         ELSE Connect(s1, out, outpin, ins, pl, k + 1)

\* the wiring with the sink's tag left at the head of the pin list
WireTagKept(st, dl, pl) ==
    LET s1 == [st EXCEPT !.names = @ \cup {dl[k] : k \in 2..Len(dl)}] IN
    IF Len(pl) = Len(dl)
    THEN IF pl[1] \in {sQ, sQBAR}
         THEN Connect(s1, dl[1], pl[1], Tail(dl), pl, 1)
         ELSE Raise(s1, "KeyError")
    ELSE Connect(s1, dl[1], <<>>, Tail(dl), pl, 1)

\* parse_conns_line after its while loop
Wire(st, dl, pl) ==
    LET s1 == [st EXCEPT !.names = @ \cup {dl[k] : k \in 2..Len(dl)}] IN
    IF Len(pl) = Len(dl)
    THEN IF pl[1] \in {sQ, sQBAR}
         THEN Connect(s1, dl[1], pl[1], Tail(dl), Tail(pl), 1)
         ELSE Raise(s1, "KeyError")
    ELSE Connect(s1, dl[1], <<>>, Tail(dl), pl, 1)

-----------------------------------------------------------------------------
(* Definition files: statements, and the symbols the scanner makes of them *)

RECURSIVE Flatten(_)
Flatten(ss) ==
    IF ss = <<>> THEN <<>>
    ELSE IF Len(ss) = 1 THEN ss[1]
    ELSE LET h == Len(ss) \div 2
         IN Flatten(SubSeq(ss, 1, h)) \o Flatten(SubSeq(ss, h + 1, Len(ss)))

\* words separated by sep
RECURSIVE Join(_, _)
Join(ws, sep) ==
    IF ws = <<>> THEN <<>>
    ELSE IF Len(ws) = 1 THEN Head(ws)
    ELSE Head(ws) \o sep \o Join(Tail(ws), sep)

\* a device statement: names, the word after '=', the parameter (NoParam
\* when there is none), and the way it is written
DevStmt(ns, kind, par, form) ==
    [names |-> ns, kind |-> kind, par |-> par, form |-> form]

RenderDev(d) ==
    LET N == Join([k \in 1..Len(d.names) |-> <<Classify(d.names[k])>>], <<tCOMMA>>)
        K == <<Classify(d.kind)>>
        P == IF d.par = NoParam THEN <<>> ELSE <<tOB, tNum(d.par), tCB>>
    IN CASE d.form = "ok" -> N \o <<tEQ>> \o K \o P \o <<tSEMI>>
         [] d.form = "no_equal" -> N \o K \o P \o <<tSEMI>>
         [] d.form = "no_semicolon" -> N \o <<tEQ>> \o K \o P
         [] d.form = "no_close" -> N \o <<tEQ>> \o K \o <<tOB, tNum(d.par), tSEMI>>
         [] d.form = "no_open" -> N \o <<tEQ>> \o K \o <<tNum(d.par), tCB, tSEMI>>
         [] d.form = "no_number" ->
                N \o <<tEQ>> \o K \o <<tOB, tName(<<"x">>), tCB, tSEMI>>
         [] d.form = "trailing_comma" ->
                N \o <<tCOMMA, tEQ>> \o K \o P \o <<tSEMI>>

\* a connection statement: the sink, its output tag (<<>> when there is
\* none), the sources [dev, pin] (pin <<>> when there is none)
ConnStmt(sink, tag, srcs, form) ==
    [sink |-> sink, tag |-> tag, srcs |-> srcs, form |-> form]

Source(dev, pin) == [dev |-> dev, pin |-> pin]

RenderPin(w, pin) ==
    <<Classify(w)>> \o (IF pin = <<>> THEN <<>> ELSE <<tDOT, Classify(pin)>>)

RenderConn(c) ==
    LET S == RenderPin(c.sink, c.tag)
        R(sep) == Join([k \in 1..Len(c.srcs) |->
                          RenderPin(c.srcs[k].dev, c.srcs[k].pin)], sep)
    IN CASE c.form = "ok" -> S \o <<tEQ>> \o R(<<tCOMMA>>) \o <<tSEMI>>
         [] c.form = "no_comma" -> S \o <<tEQ>> \o R(<<>>) \o <<tSEMI>>
         [] c.form = "no_semicolon" -> S \o <<tEQ>> \o R(<<tCOMMA>>)
         [] c.form = "no_equal" -> S \o R(<<tCOMMA>>) \o <<tSEMI>>

\* a section header, written in full or with one symbol missing or wrong
Header(h, form) ==
    CASE form = "ok" -> <<tOSB, tHeading(h), tCSB>>
      [] form = "no_close" -> <<tOSB, tHeading(h)>>
      [] form = "no_open" -> <<tHeading(h), tCSB>>
      [] form = "no_name" -> <<tOSB, tCSB>>
      [] form = "absent" -> <<>>

File(h1, devs, h2, conns, tail) ==
    [hdr1 |-> h1, devs |-> devs, hdr2 |-> h2, conns |-> conns, tail |-> tail]

Render(f) ==
    Header(sDevices, f.hdr1)
    \o Flatten([k \in 1..Len(f.devs) |-> RenderDev(f.devs[k])])
    \o Header(sConns, f.hdr2)
    \o Flatten([k \in 1..Len(f.conns) |-> RenderConn(f.conns[k])])
    \o f.tail

\* the position in Render(f) of the first symbol of the k-th device statement
RECURSIVE DevStart(_, _)
DevStart(f, k) ==
    IF k = 1 THEN Len(Header(sDevices, f.hdr1)) + 1
    ELSE DevStart(f, k - 1) + Len(RenderDev(f.devs[k - 1]))

DevEnd(f, k) == DevStart(f, k) + Len(RenderDev(f.devs[k])) - 1

ConnsBase(f) ==
    IF f.devs = <<>> THEN Len(Header(sDevices, f.hdr1))
    ELSE DevEnd(f, Len(f.devs))

RECURSIVE ConnStart(_, _)
ConnStart(f, k) ==
    IF k = 1 THEN ConnsBase(f) + Len(Header(sConns, f.hdr2)) + 1
    ELSE ConnStart(f, k - 1) + Len(RenderConn(f.conns[k - 1]))

ConnEnd(f, k) == ConnStart(f, k) + Len(RenderConn(f.conns[k])) - 1

-----------------------------------------------------------------------------
(* The definition files explored *)

wa == <<"a">>
wb == <<"b">>
wx1 == <<"x","1">>
wnosuch == <<"n","o","s","u","c","h">>
wFOO == <<"F","O","O">>
w5 == <<"5">>
pI1 == <<"I","1">>
pI2 == <<"I","2">>
pI3 == <<"I","3">>
pI17 == <<"I","1","7">>
pIx5 == <<"I","x","5">>

wc == <<"c">>
wand == <<"a","n","d">>
wDevices == <<"D","e","v","i","c","e","s">>
wClock == <<"C","l","o","c","k">>

NameLists == {<<wa>>, <<wb>>, <<wa, wb>>, <<wa, wa>>}

GoodKindPars ==
    {<<sAND, NoParam>>, <<sAND, 16>>, <<sNAND, 1>>, <<sOR, 2>>,
     <<sNOR, NoParam>>, <<sXOR, NoParam>>, <<sXOR, 2>>, <<sDTYPE, NoParam>>,
     <<sCLOCK, 1>>, <<sSWITCH, NoParam>>, <<sSWITCH, 1>>}

BadKindPars ==
    {<<sAND, 17>>, <<sAND, 0>>, <<sNOR, 17>>, <<sXOR, 3>>, <<sCLOCK, 0>>,
     <<sSWITCH, 2>>}

AllDevStmts ==
    {DevStmt(ns, kp[1], kp[2], "ok") :
        ns \in NameLists, kp \in GoodKindPars \cup BadKindPars}

CoreDevStmts ==
    {DevStmt(ns, kp[1], kp[2], "ok") :
        ns \in NameLists \ {<<wa, wa>>},
        kp \in {<<sAND, NoParam>>, <<sDTYPE, NoParam>>, <<sAND, 17>>}}

MalformedDevStmts ==
    {DevStmt(<<wa>>, sAND, NoParam, "no_equal"),
     DevStmt(<<wa>>, wFOO, NoParam, "ok"),
     DevStmt(<<wa>>, sAND, NoParam, "no_semicolon"),
     DevStmt(<<wa>>, sAND, 2, "no_semicolon"),
     DevStmt(<<wa>>, sAND, 2, "no_close"),
     DevStmt(<<wa>>, sAND, 2, "no_open"),
     DevStmt(<<wa>>, sAND, NoParam, "no_number"),
     DevStmt(<<>>, sAND, NoParam, "ok"),
     DevStmt(<<wa>>, sAND, NoParam, "trailing_comma"),
     DevStmt(<<wa>>, sDTYPE, 1, "ok"),
     DevStmt(<<wa>>, sCLOCK, NoParam, "ok")}

FollowDevStmt == DevStmt(<<wb>>, sOR, NoParam, "ok")

\* statements that declare a reserved word, in some spelling, as a device
ReservedDevStmts ==
    {DevStmt(<<wand>>, sAND, NoParam, "ok"),
     DevStmt(<<wDevices>>, sDTYPE, NoParam, "ok"),
     DevStmt(<<wa, wClock>>, sOR, 2, "ok"),
     DevStmt(<<sAND>>, sAND, NoParam, "ok")}

\* statements that declare three names
ListedDevStmts ==
    {DevStmt(<<wx1, wc, wa>>, kp[1], kp[2], "ok") : kp \in GoodKindPars}

DevSections ==
    UNION {[1..n -> CoreDevStmts] : n \in 0..MaxStmts}
    \cup {<<d>> : d \in AllDevStmts \cup ReservedDevStmts \cup ListedDevStmts}
    \cup {<<FollowDevStmt, d>> : d \in ReservedDevStmts \cup ListedDevStmts}
    \cup {<<m>> : m \in MalformedDevStmts}
    \cup {<<m, FollowDevStmt>> : m \in MalformedDevStmts}
    \cup {<<FollowDevStmt, m>> : m \in MalformedDevStmts}
    \cup {<<DevStmt(<<wc>>, sCLOCK, NoParam, "ok"),
             DevStmt(<<wa>>, sDTYPE, 1, "ok")>>}
    \cup {<<DevStmt(<<wa, wb, wa>>, sAND, NoParam, "ok")>>}

\* the devices declared in the files that vary the connections:
\* a is a two-input AND gate, b a D-type
ConnDevs == <<DevStmt(<<wa>>, sAND, NoParam, "ok"),
              DevStmt(<<wb>>, sDTYPE, NoParam, "ok")>>

OneSourceConns ==
    {ConnStmt(sink, tag, <<Source(dev, pin)>>, "ok") :
        sink \in {wa, wb, wx1},
        tag \in {<<>>, sQ, sQBAR, pI1},
        dev \in {wa, wb, wnosuch, w5},
        pin \in {<<>>, pI1, pI2, pI3, pI17, pIx5, sDATA, sCLK, sQ, sSET, w5}}

CoreSources ==
    {Source(wa, pI1), Source(wb, sDATA), Source(wb, sCLK), Source(wa, <<>>)}

TwoSourceConns ==
    {ConnStmt(sink, tag, <<s1, s2>>, form) :
        sink \in {wa, wb}, tag \in {<<>>, sQ},
        s1 \in CoreSources, s2 \in CoreSources,
        form \in {"ok", "no_comma"}}

CoreConns ==
    {ConnStmt(sink, tag, <<s>>, "ok") :
        sink \in {wa, wb}, tag \in {<<>>, sQ},
        s \in {Source(wa, pI1), Source(wb, sDATA)}}

MalformedConns ==
    {ConnStmt(wb, tag, <<Source(wb, sDATA)>>, form) :
        tag \in {<<>>, sQ}, form \in {"no_semicolon", "no_equal"}}

FollowConn == ConnStmt(wb, sQBAR, <<Source(wb, sCLK)>>, "ok")

ConnSections ==
    UNION {[1..n -> CoreConns] : n \in 0..MaxStmts}
    \cup {<<c>> : c \in OneSourceConns \cup TwoSourceConns}
    \cup {<<m>> : m \in MalformedConns}
    \cup {<<m, FollowConn>> : m \in MalformedConns}
    \cup {<<c, ConnStmt(sink, pI1, <<Source(wnosuch, pI1)>>, "ok")>> :
            c \in CoreConns, sink \in {wa, wx1}}

Tails == {<<>>, Header(sMonit, "ok")}

HeaderForms == {"ok", "no_close", "no_open", "no_name", "absent"}

Files ==
    {File("ok", d, "ok", <<>>, t) : d \in DevSections, t \in Tails}
    \cup {File("ok", ConnDevs, "ok", c, t) : c \in ConnSections, t \in Tails}
    \cup {File(h1, d, h2, c, t) :
            h1 \in HeaderForms, h2 \in HeaderForms,
            d \in {<<>>, <<DevStmt(<<wb>>, sDTYPE, NoParam, "ok")>>},
            c \in {<<>>, <<ConnStmt(wb, sQ, <<Source(wb, sDATA)>>, "ok")>>},
            t \in Tails}
    \cup {File("ok", <<DevStmt(<<wa, wb>>, sDTYPE, NoParam, "ok")>>,
                "ok", <<ConnStmt(wb, sQ, <<Source(wa, sDATA)>>, "ok")>>, t) :
            t \in Tails}

-----------------------------------------------------------------------------
(* The pass *)

St == [pos |-> pos, names |-> names, errors |-> errors,
       stored |-> stored_device_list, dreqs |-> device_reqs,
       creqs |-> conn_reqs, exc |-> exception, fab |-> <<>>,
       serr |-> scanner_errors]

\* the parser's data after a method ran
Becomes(st) ==
    /\ pos' = st.pos
    /\ names' = st.names
    /\ errors' = st.errors
    /\ scanner_errors' = st.serr
    /\ stored_device_list' = st.stored
    /\ device_reqs' = st.dreqs
    /\ conn_reqs' = st.creqs
    /\ exception' = st.exc

\* the entry of line_log for a statement-parser call that started at position
\* from with ne diagnostics and nr requests recorded, and returned in st
LineEntry(sec, from, ne, nr, st) ==
    [sec |-> sec, from |-> from, to |-> st.pos,
     errs |-> [k \in 1..(Len(st.errors) - ne) |-> st.errors[ne + k].code],
     reqs |-> Len(st.dreqs) + Len(st.creqs) - nr]

\* the parser constructed over the symbols of src
Loaded ==
    /\ toks = Render(src)
    /\ pos = 1
    /\ names = Interned(SymAt(1))
    /\ errors = <<>>
    /\ scanner_errors = ScanErrors(SymAt(1))
    /\ stored_device_list = <<>>
    /\ device_reqs = <<>>
    /\ conn_reqs = <<>>
    /\ monitor_reqs = <<>>
    /\ pc = "devices_block"
    /\ i = 0
    /\ device_list = <<>>
    /\ ports_list = <<>>
    /\ line_from = [pos |-> 0, ne |-> 0, nr |-> 0]
    /\ line_log = {}
    /\ spin = 0
    /\ exception = ""
    /\ result = ""
    /\ text = <<>>
    /\ fpos = 0
    /\ current_character = " "
    /\ current_line = 0
    /\ current_position = 0
    /\ returned = <<>>
    /\ sc_pc = "idle"

Init ==
    /\ src \in Files
    /\ Loaded

\* a header check that steps over the symbol it rejects
HeaderBlockConsuming(st, name) ==
    LET s1 == Advance(st)
        s2 == Advance(s1)
    IN IF Cur(st).type # OPEN_SQUARE_BRACKET
       THEN [ok |-> FALSE, st |-> AddError(st, INVALID_HEADER, "Expected '['")]
       ELSE IF ~(Cur(s1).type = HEADING /\ Cur(s1).name = name)
       THEN [ok |-> FALSE,
             st |-> AddError(s2, INVALID_HEADER,
                             IF name = sDevices THEN "Expected 'devices'"
                             ELSE "Expected 'conns'")]
       ELSE IF Cur(s2).type # CLOSE_SQUARE_BRACKET
       THEN [ok |-> FALSE, st |-> AddError(s2, INVALID_HEADER, "Expected ']'")]
       ELSE [ok |-> TRUE, st |-> Advance(s2)]

\* '[' name ']' or one INVALID_HEADER: [ok, st]
HeaderBlock(st, name) ==
    LET s1 == Advance(st)
        s2 == Advance(s1)
    IN IF Cur(st).type # OPEN_SQUARE_BRACKET
       THEN [ok |-> FALSE, st |-> AddError(st, INVALID_HEADER, "Expected '['")]
       ELSE IF ~(Cur(s1).type = HEADING /\ Cur(s1).name = name)
       THEN [ok |-> FALSE,
             st |-> AddError(s1, INVALID_HEADER,
                             IF name = sDevices THEN "Expected 'devices'"
                             ELSE "Expected 'conns'")]
       ELSE IF Cur(s2).type # CLOSE_SQUARE_BRACKET
       THEN [ok |-> FALSE, st |-> AddError(s2, INVALID_HEADER, "Expected ']'")]
       ELSE [ok |-> TRUE, st |-> Advance(s2)]

\* parse_devices_block, up to its call of parse_devices
ParseDevicesBlock ==
    /\ UNCHANGED <<scanvars, monitor_reqs>>
    /\ pc = "devices_block"
    /\ LET h == HeaderBlock(St, sDevices) IN
       /\ Becomes(h.st)
       /\ pc' = IF h.ok THEN "devices" ELSE "conns_block"
    /\ i' = 0
    /\ UNCHANGED <<src, toks, device_list, ports_list, line_from, line_log,
                   spin, result>>

\* a loop whose bound test lets one more round through
LoopRoundLate(st, n) ==
    IF Cur(st).type = OPEN_SQUARE_BRACKET THEN "exit"
    ELSE IF Cur(st).type \in {HEADING, EOF} \/ n > LoopBound + 1 THEN "break"
    ELSE "line"

\* what one round of the while loop of parse_devices / parse_conns does
\* before it calls the statement parser: "exit", "break" or "line"
LoopRound(st, n) ==
    IF Cur(st).type = OPEN_SQUARE_BRACKET THEN "exit"
    ELSE IF Cur(st).type \in {HEADING, EOF} \/ n > LoopBound THEN "break"
    ELSE "line"

LoopBreak(st, n) ==
    IF Cur(st).type \in {HEADING, EOF}
    THEN AddError(st, SYNTAX_ERROR, "Expected [conns] block")
    ELSE AddError(st, OVERFLOW_ERROR,
                  "Overflow error: Looping too many times in devices, please check that you have a [conns] block")

\* one round of the while loop of parse_devices
ParseDevices ==
    /\ UNCHANGED <<scanvars, monitor_reqs>>
    /\ pc = "devices"
    /\ LET round == LoopRound(St, i + 1) IN
       CASE round = "exit" ->
              /\ pc' = "conns_block"
              /\ UNCHANGED <<pos, names, errors, scanner_errors, stored_device_list,
                             device_reqs, conn_reqs, exception, i, line_log>>
         [] round = "break" ->
              /\ Becomes(LoopBreak(St, i + 1))
              /\ pc' = "conns_block"
              /\ i' = i + 1
              /\ UNCHANGED line_log
         [] round = "line" ->
              LET st == parse_device_line(St) IN
              /\ Becomes(st)
              /\ pc' = "devices"
              /\ i' = i + 1
              /\ line_log' = line_log \cup
                    {LineEntry("devices", pos, Len(errors),
                               Len(device_reqs) + Len(conn_reqs), st)}
    /\ UNCHANGED <<src, toks, device_list, ports_list, line_from, spin, result>>

\* parse_conns_block, up to its call of parse_conns
ParseConnsBlock ==
    /\ UNCHANGED <<scanvars, monitor_reqs>>
    /\ pc = "conns_block"
    /\ LET h == HeaderBlock(St, sConns) IN
       /\ Becomes(h.st)
       /\ pc' = IF h.ok THEN "conns" ELSE "return"
    /\ i' = 0
    /\ UNCHANGED <<src, toks, device_list, ports_list, line_from, line_log,
                   spin, result>>

\* one round of the while loop of parse_conns, into parse_conns_line up to
\* the loop over its sources
ParseConns ==
    /\ UNCHANGED <<scanvars, monitor_reqs>>
    /\ pc = "conns"
    /\ LET round == LoopRound(St, i + 1) IN
       CASE round = "exit" ->
              /\ pc' = "return"
              /\ UNCHANGED <<pos, names, errors, scanner_errors, stored_device_list,
                             device_reqs, conn_reqs, exception, i, line_log,
                             device_list, ports_list, line_from>>
         [] round = "break" ->
              /\ Becomes(LoopBreak(St, i + 1))
              /\ pc' = "return"
              /\ i' = i + 1
              /\ UNCHANGED <<line_log, device_list, ports_list, line_from>>
         [] round = "line" ->
              LET h == ConnsLineHead(St) IN
              /\ Becomes(h.st)
              /\ i' = i + 1
              /\ device_list' = h.dl
              /\ ports_list' = h.pl
              /\ line_from' = [pos |-> pos, ne |-> Len(errors),
                               nr |-> Len(device_reqs) + Len(conn_reqs)]
              /\ pc' = IF h.loop THEN "sources" ELSE "conns"
              /\ line_log' = IF h.loop THEN line_log
                             ELSE line_log \cup
                                  {LineEntry("conns", pos, Len(errors),
                                      Len(device_reqs) + Len(conn_reqs), h.st)}
    /\ spin' = 0
    /\ UNCHANGED <<src, toks, result>>

\* one round of the while loop of parse_conns_line
ConnsSource ==
    /\ UNCHANGED <<scanvars, monitor_reqs>>
    /\ pc = "sources"
    /\ IF Cur(St).type \in {SEMICOLON, EOF}
       THEN /\ pc' = "wire"
            /\ spin' = 0
            /\ UNCHANGED <<pos, names, errors, scanner_errors, stored_device_list, device_reqs,
                           conn_reqs, exception, device_list, ports_list>>
       ELSE LET r == SourceStep(St, device_list, ports_list) IN
            /\ r.st.pos = pos => spin < MaxSpin
            /\ Becomes(r.st)
            /\ device_list' = r.dl
            /\ ports_list' = r.pl
            /\ spin' = IF r.st.pos = pos THEN spin + 1 ELSE 0
            /\ pc' = IF r.st.exc # "" THEN "aborted"
                     ELSE IF r.brk THEN "wire" ELSE "sources"
    /\ UNCHANGED <<src, toks, i, line_from, line_log, result>>

\* parse_conns_line after the while loop: the connections are requested
ConnsWire ==
    /\ UNCHANGED <<scanvars, monitor_reqs>>
    /\ pc = "wire"
    /\ \E answers \in [1..(Len(device_list) - 1) -> Statuses] :
       LET st == Wire([St EXCEPT !.fab = answers], device_list, ports_list) IN
       /\ Becomes(st)
       /\ pc' = IF st.exc # "" THEN "aborted" ELSE "conns"
       /\ line_log' = IF st.exc # "" THEN line_log
                      ELSE line_log \cup
                           {LineEntry("conns", line_from.pos, line_from.ne,
                                      line_from.nr, st)}
    /\ UNCHANGED <<src, toks, i, device_list, ports_list, line_from, spin,
                   result>>

\* parse_network returns
Return ==
    /\ UNCHANGED <<scanvars, monitor_reqs>>
    /\ pc = "return"
    /\ pc' = "done"
    /\ result' = "True"
    /\ UNCHANGED <<src, toks, pos, names, errors, scanner_errors, stored_device_list,
                   device_reqs, conn_reqs, i, device_list, ports_list,
                   line_from, line_log, spin, exception>>

Next ==
    \/ ParseDevicesBlock
    \/ ParseDevices
    \/ ParseConnsBlock
    \/ ParseConns
    \/ ConnsSource
    \/ ConnsWire
    \/ Return

Spec == Init /\ [][Next]_vars

-----------------------------------------------------------------------------
(* The pass over long sections: as many statements as the loops allow
   rounds, and one more *)

\* the k-th of a run of distinct names: n1, n2, ...
LongName(k) == <<"n">> \o Decimal(k)

\* a circuit of n D-types, the first fed by the second
LongFile(n) ==
    File("ok",
         [k \in 1..n |-> DevStmt(<<LongName(k)>>, sDTYPE, NoParam, "ok")],
         "ok",
         <<ConnStmt(LongName(1), sQ, <<Source(LongName(2), sDATA)>>, "ok")>>,
         <<>>)

LongFiles == {LongFile(LoopBound), LongFile(LoopBound + 1)}

LongInit ==
    /\ src \in LongFiles
    /\ Loaded

LongSpec == LongInit /\ [][Next]_vars

-----------------------------------------------------------------------------
(* The scanner alone: get_symbol called again and again on one text *)

\* the pieces the texts are made of: words, a number, punctuation, white
\* space, a comment line, the start of a comment, a character of no symbol
Pieces ==
    {<<"A","n","d">>, sDevices, sAND, wx1, <<"0","7">>, <<";">>, <<" ">>,
     <<"\n">>, <<"#","c","\n">>, <<"#">>, <<"?">>}

\* sw1 = SWITCH(1);
SwitchLine ==
    <<"s","w","1"," ","=", " ">> \o sSWITCH \o <<"(","1",")",";">>

Texts ==
    UNION {{Flatten(ps) : ps \in [1..n -> Pieces]} : n \in 0..MaxPieces}
    \cup {SwitchLine, <<"#","c","\n">> \o SwitchLine \o <<"\n">>}

Cursor == [fpos |-> fpos, ch |-> current_character, line |-> current_line,
           col |-> current_position]

\* how many of the last calls returned the same as the last call
RECURSIVE Repeats(_)
Repeats(rs) ==
    IF Len(rs) < 2 \/ rs[Len(rs)] # rs[Len(rs) - 1] THEN 0
    ELSE 1 + Repeats(SubSeq(rs, 1, Len(rs) - 1))

ScanInit ==
    /\ text \in Texts
    /\ fpos = 0
    /\ current_character = " "
    /\ current_line = 0
    /\ current_position = 0
    /\ returned = <<>>
    /\ sc_pc = "ready"
    /\ names = {}
    /\ scanner_errors = <<>>
    /\ src = File("absent", <<>>, "absent", <<>>, <<>>)
    /\ toks = <<>>
    /\ pos = 0
    /\ errors = <<>>
    /\ stored_device_list = <<>>
    /\ device_reqs = <<>>
    /\ conn_reqs = <<>>
    /\ monitor_reqs = <<>>
    /\ pc = "scanning"
    /\ i = 0
    /\ device_list = <<>>
    /\ ports_list = <<>>
    /\ line_from = [pos |-> 0, ne |-> 0, nr |-> 0]
    /\ line_log = {}
    /\ spin = 0
    /\ exception = ""
    /\ result = ""

\* one call of get_symbol
GetSymbol ==
    /\ sc_pc = "ready"
    /\ Repeats(returned) <= MaxRepeat
    /\ LET r == get_symbol(Cursor) IN
       /\ fpos' = r.sc.fpos
       /\ current_character' = r.sc.ch
       /\ current_line' = r.sc.line
       /\ current_position' = r.sc.col
       /\ sc_pc' = IF r.hang THEN "hung" ELSE "ready"
       /\ returned' = IF r.hang THEN returned
                      ELSE Append(returned, [sym |-> r.sym, from |-> r.from,
                                             to |-> r.sc.fpos,
                                             nerr |-> Len(r.errs)])
       /\ scanner_errors' = scanner_errors \o r.errs
       /\ names' = names \cup Interned(r.sym)
    /\ UNCHANGED text
    /\ UNCHANGED parservars

ScanNext == GetSymbol

ScanSpec == ScanInit /\ [][ScanNext]_vars

-----------------------------------------------------------------------------
(* What the properties speak of *)

Codes == [k \in 1..Len(errors) |-> errors[k].code]

HasCode(code) == \E k \in 1..Len(errors) : errors[k].code = code

\* the device-creation requests issued for the name n
DeviceRequests(n) == {k \in 1..Len(device_reqs) : device_reqs[k].id = n}

NoDuplicates(ws) == \A j, k \in 1..Len(ws) : j # k => ws[j] # ws[k]

\* the names declared by the device statements of f, in order
DeclaredNames(f) == Flatten([k \in 1..Len(f.devs) |-> f.devs[k].names])

DeclaredSet(f) == {DeclaredNames(f)[k] : k \in 1..Len(DeclaredNames(f))}

\* the parameter policy of the language, per device kind
ParameterAllowed(kind, par) ==
    CASE kind \in {sAND, sNAND, sOR, sNOR} -> par = NoParam \/ par \in 1..16
      [] kind = sXOR -> par = NoParam \/ par = 2
      [] kind = sDTYPE -> par = NoParam
      [] kind = sCLOCK -> par >= 1
      [] kind = sSWITCH -> par = NoParam \/ par \in 0..1
      [] OTHER -> FALSE

\* name (',' name)* '=' KIND ['(' NUMBER ')'] ';'
GrammaticalDev(d) ==
    /\ d.form = "ok"
    /\ d.names # <<>>
    /\ \A k \in 1..Len(d.names) : Classify(d.names[k]).type = NAME
    /\ d.kind \in logic_list

WellFormedDev(d) == GrammaticalDev(d) /\ ParameterAllowed(d.kind, d.par)

\* the statement of f that declares n, for a name declared once
DeclarationOf(f, n) ==
    f.devs[CHOOSE k \in 1..Len(f.devs) :
              \E j \in 1..Len(f.devs[k].names) : f.devs[k].names[j] = n]

\* the number of input pins the language gives a declared device
DeclaredInputs(d) ==
    IF d.kind \in {sAND, sNAND, sOR, sNOR, sXOR}
    THEN (IF d.par = NoParam THEN 2 ELSE d.par)
    ELSE 0

\* the decimal text of n after the letter I
InputPin(n) == <<"I">> \o Decimal(n)

\* a source dev.pin that names an existing input of a declared device
WellFormedSource(f, s) ==
    /\ s.dev \in DeclaredSet(f)
    /\ LET d == DeclarationOf(f, s.dev) IN
       \/ d.kind = sDTYPE /\ s.pin \in {sCLK, sDATA}
       \/ \E n \in 1..DeclaredInputs(d) : s.pin = InputPin(n)

\* name ['.' ('Q'|'QBAR')] '=' name '.' pin (',' name '.' pin)* ';'
WellFormedConn(f, c) ==
    /\ c.form = "ok"
    /\ c.sink \in DeclaredSet(f)
    /\ \/ c.tag = <<>>
       \/ c.tag \in {sQ, sQBAR} /\ DeclarationOf(f, c.sink).kind = sDTYPE
    /\ c.srcs # <<>>
    /\ \A k \in 1..Len(c.srcs) : WellFormedSource(f, c.srcs[k])

WellFormedFile(f) ==
    /\ f.hdr1 = "ok"
    /\ f.hdr2 = "ok"
    /\ \A k \in 1..Len(f.devs) : WellFormedDev(f.devs[k])
    /\ NoDuplicates(DeclaredNames(f))
    /\ \A k \in 1..Len(f.conns) : WellFormedConn(f, f.conns[k])

\* the statement-parser calls that started inside symbols from..to
CallsWithin(sec, from, to) ==
    {e \in line_log : e.sec = sec /\ e.from >= from /\ e.from <= to}

\* the diagnostics recorded while the lookahead stood inside symbols from..to
ErrorsAt(from, to) ==
    {k \in 1..Len(errors) : errors[k].at >= from /\ errors[k].at <= to}

RECURSIVE CountCode(_, _)
CountCode(cs, code) ==
    IF cs = <<>> THEN 0
    ELSE (IF Head(cs) = code THEN 1 ELSE 0) + CountCode(Tail(cs), code)

\* the requests issued by the calls of S
RECURSIVE TotalRequests(_)
TotalRequests(S) ==
    IF S = {} THEN 0
    ELSE LET e == CHOOSE e \in S : TRUE IN e.reqs + TotalRequests(S \ {e})

\* the diagnostics with this code recorded by the calls of S
RECURSIVE TotalCode(_, _)
TotalCode(S, code) ==
    IF S = {} THEN 0
    ELSE LET e == CHOOSE e \in S : TRUE
         IN CountCode(e.errs, code) + TotalCode(S \ {e}, code)

-----------------------------------------------------------------------------
(* C1. A file made of a well-formed [devices] section and a well-formed
   [conns] section, whether it ends after the last connection or goes on
   with another header, leaves no diagnostic when parse_network has
   returned, and exactly one device-creation request was issued for every
   declared name. *)
C1_WellFormedFileIsClean ==
    (pc = "done" /\ WellFormedFile(src) /\ src.devs # <<>> /\ src.conns # <<>>) =>
        /\ errors = <<>>
        /\ \A n \in DeclaredSet(src) : Cardinality(DeviceRequests(n)) = 1

(* C2. When a name is declared twice in the devices section, in one
   comma-list or in two statements, the pass records a NAME_DEFINED
   diagnostic and issues at most one device-creation request for it. *)
C2_DuplicateNameRejected ==
    (/\ pc = "done"
     /\ src.hdr1 = "ok"
     /\ \A k \in 1..Len(src.devs) : WellFormedDev(src.devs[k])
     /\ ~NoDuplicates(DeclaredNames(src)))
    => /\ HasCode(NAME_DEFINED)
       /\ \A n \in DeclaredSet(src) :
             Cardinality({k \in 1..Len(DeclaredNames(src)) :
                             DeclaredNames(src)[k] = n}) > 1
             => Cardinality(DeviceRequests(n)) <= 1

(* C3. Every device-creation request carries a parameter within the range
   of its kind: 1..16 inputs for AND/OR/NAND/NOR, 2 for XOR, a period of at
   least 1 for CLOCK, 0 or 1 for SWITCH. *)
C3_RequestsInRange ==
    \A k \in 1..Len(device_reqs) :
        LET r == device_reqs[k] IN
        CASE r.kind \in {sAND, sNAND, sOR, sNOR} -> r.par \in 1..16
          [] r.kind = sXOR -> r.par = 2
          [] r.kind = sCLOCK -> r.par >= 1
          [] r.kind = sSWITCH -> r.par \in 0..1
          [] OTHER -> TRUE

\* the k-th device statement of f declares names no earlier name equals
FreshNames(f, k) ==
    /\ NoDuplicates(f.devs[k].names)
    /\ \A j \in 1..(k - 1) : \A m \in 1..Len(f.devs[j].names) :
          \A n \in 1..Len(f.devs[k].names) :
             f.devs[j].names[m] # f.devs[k].names[n]

\* a gate statement, grammatical, whose parameter is outside the gate's range
OutOfRangeGate(d) ==
    /\ GrammaticalDev(d)
    /\ d.kind \in {sAND, sNAND, sOR, sNOR, sXOR}
    /\ d.par # NoParam
    /\ ~ParameterAllowed(d.kind, d.par)

C4_Case(k) ==
    /\ src.hdr1 = "ok"
    /\ OutOfRangeGate(src.devs[k])
    /\ FreshNames(src, k)

(* C4. A gate statement that is well-formed but for a parameter outside its
   range (AND/OR/NAND/NOR outside 1..16, XOR other than 2) records exactly
   one diagnostic, an INVALID_NUMBER, and the statement parser returns with
   the lookahead on the symbol after the statement's ';', from which the
   next statement is parsed. *)
C4_OutOfRangeOneDiagnostic ==
    \A k \in 1..Len(src.devs) : C4_Case(k) =>
        \A e \in line_log :
            (e.sec = "devices" /\ e.from = DevStart(src, k)) =>
                /\ e.errs = <<INVALID_NUMBER>>
                /\ e.to = DevEnd(src, k) + 1
                /\ Cardinality(ErrorsAt(DevStart(src, k), DevEnd(src, k))) = 1
                /\ (pc = "done" /\ k < Len(src.devs)) =>
                      \E n \in line_log :
                          n.sec = "devices" /\ n.from = DevEnd(src, k) + 1

C4_Witness ==
    /\ pc = "done"
    /\ \E k \in 1..Len(src.devs) :
          /\ C4_Case(k)
          /\ k < Len(src.devs)
          /\ \E e \in line_log : e.sec = "devices" /\ e.from = DevStart(src, k)

(* C5. A connection statement whose sink is a name never declared in the
   devices section records an INVALID_DEVICE diagnostic and issues no
   connection request. *)
C5_UndeclaredSinkRejected ==
    \A k \in 1..Len(src.conns) :
        (/\ src.hdr1 = "ok" /\ src.hdr2 = "ok"
         /\ Classify(src.conns[k].sink).type = NAME
         /\ src.conns[k].sink \notin DeclaredSet(src))
        => \A e \in line_log :
               (e.sec = "conns" /\ e.from = ConnStart(src, k)) =>
                   /\ CountCode(e.errs, INVALID_DEVICE) >= 1
                   /\ e.reqs = 0

\* the k-th connection statement is 'sink.I1 = nosuch.I1;', nosuch undeclared,
\* the statement parser was called on its first symbol, and the parser is
\* between statements with the lookahead past the statement's ';'
C6_Case(k) ==
    /\ src.hdr1 = "ok" /\ src.hdr2 = "ok"
    /\ src.conns[k].form = "ok"
    /\ Classify(src.conns[k].sink).type = NAME
    /\ src.conns[k].tag = pI1
    /\ src.conns[k].srcs = <<Source(wnosuch, pI1)>>
    /\ wnosuch \notin DeclaredSet(src)
    /\ \E e \in line_log : e.sec = "conns" /\ e.from = ConnStart(src, k)
    /\ pc \in {"conns", "return", "done"}
    /\ pos > ConnEnd(src, k)

(* C6. For the connection statement 'x1.I1 = nosuch.I1;' with nosuch
   undeclared, the statement-parser calls made on the statement's symbols
   record exactly one INVALID_DEVICE diagnostic between them, and no
   connection request is issued. *)
C6_NoSuchDevice ==
    \A k \in 1..Len(src.conns) : C6_Case(k) =>
        LET calls == CallsWithin("conns", ConnStart(src, k), ConnEnd(src, k))
        IN /\ TotalCode(calls, INVALID_DEVICE) = 1
           /\ TotalRequests(calls) = 0
           /\ \A r \in 1..Len(conn_reqs) :
                 ~(conn_reqs[r].at > ConnStart(src, k)
                   /\ conn_reqs[r].at <= ConnEnd(src, k) + 1)

C6_Witness ==
    /\ pc = "done"
    /\ \E k \in 1..Len(src.conns) :
          C6_Case(k) /\ src.conns[k].sink = wx1

(* C7. When the devices header lacks its closing ']', the pass records an
   INVALID_HEADER or SYNTAX_ERROR diagnostic and never enters the conns
   section: no connection statement is parsed, no connection requested. *)
C7_NoCloseNeverReachesConns ==
    src.hdr1 = "no_close" =>
        /\ pc \notin {"conns", "sources", "wire"}
        /\ conn_reqs = <<>>
        /\ \A e \in line_log : e.sec # "conns"
        /\ pc = "done" => (HasCode(INVALID_HEADER) \/ HasCode(SYNTAX_ERROR))

\* a device statement with one of the grammar violations: missing '=',
\* unrecognised KIND, missing ';', mismatched brackets, non-numeric
\* parameter, non-name at its start
GrammarViolation(d) ==
    \/ d.form \in {"no_equal", "no_semicolon", "no_close", "no_open", "no_number"}
    \/ d.form = "ok" /\ d.names = <<>>
    \/ d.form = "ok" /\ d.names # <<>> /\ d.kind \notin logic_list

(* C8. A device statement with a grammar violation produces exactly one
   diagnostic and parsing resumes at the next statement: the well-formed
   statement that follows is parsed, its devices are requested, and no
   further diagnostic is recorded. *)
C8_OneDiagnosticThenResume ==
    (/\ src.hdr1 = "ok" /\ src.hdr2 = "ok"
     /\ Len(src.devs) = 2
     /\ GrammarViolation(src.devs[1])
     /\ WellFormedDev(src.devs[2])
     /\ FreshNames(src, 2)
     /\ src.conns = <<>>
     /\ src.tail # <<>>)
    => /\ Len(errors) <= 1
       /\ pc = "done" =>
             /\ Len(errors) = 1
             /\ \A n \in 1..Len(src.devs[2].names) :
                   Cardinality(DeviceRequests(src.devs[2].names[n])) = 1

(* C9. parse_network never aborts: no unhandled exception ends the pass. *)
C9_NeverAborts == exception = "" /\ pc # "aborted"

(* C10. parse_network terminates: every round of the loop over the sources
   of a connection statement either leaves the loop or changes what the
   next round depends on (the lookahead, the collected devices and pins), so
   that the loop cannot repeat one round for ever. *)
C10_SourceLoopProgresses ==
    [][~(/\ pc = "sources" /\ pc' = "sources"
         /\ pos' = pos
         /\ names' = names
         /\ device_list' = device_list
         /\ ports_list' = ports_list)]_vars

(* C11. The result of the pass depends on the diagnostics alone:
   parse_network returns True exactly when the diagnostic sequence is empty
   after the pass. *)
C11_AcceptIffClean == pc = "done" => (result = "True" <=> errors = <<>>)

(* C12. The diagnostic sequence is append-only: in every step of the pass
   the sequence before the step is a prefix of the sequence after it. *)
C12_ErrorsAppendOnly ==
    [][/\ Len(errors) <= Len(errors')
       /\ SubSeq(errors', 1, Len(errors)) = errors]_vars

\* the pass recorded diagnostics in different steps, the later one unlike
\* the earlier
C12_Witness ==
    /\ Len(errors) >= 2
    /\ errors[1] # errors[Len(errors)]
    /\ pc = "done"

(* C13. A status other than success from Network.make_connection is surfaced
   as a diagnostic: a pass in which a connection request failed ends with a
   non-empty diagnostic sequence. *)
C13_FabricErrorRecorded ==
    (/\ pc = "done"
     /\ \E k \in 1..Len(conn_reqs) : conn_reqs[k].status # NO_ERROR)
    => errors # <<>>

\* a word that equals a section name or a device kind when case is ignored
ReservedWord(w) == LowerWord(w) \in keywords

(* C14. A reserved word, in any spelling, cannot be declared as a device:
   the pass over a file with a device statement that names one ends with an
   INVALID_NAME diagnostic, of the parser or of the scanner, and without a
   device-creation request for that name. *)
C14_ReservedNameNotDeclared ==
    \A k \in 1..Len(src.devs) : \A j \in 1..Len(src.devs[k].names) :
        (pc = "done" /\ ReservedWord(src.devs[k].names[j]))
        => /\ \/ HasCode(INVALID_NAME)
              \/ \E e \in 1..Len(scanner_errors) :
                    scanner_errors[e].code = SC_INVALID_NAME
           /\ DeviceRequests(src.devs[k].names[j]) = {}

\* the requests the language asks of a well-formed device statement
ExpectedRequests(d) ==
    [j \in 1..Len(d.names) |->
        [id |-> d.names[j], kind |-> d.kind,
         par |-> IF d.par # NoParam THEN d.par
                 ELSE IF d.kind \in {sAND, sNAND, sOR, sNOR, sXOR} THEN 2
                 ELSE IF d.kind = sSWITCH THEN 0
                 ELSE NoParam]]

\* the requests issued while the lookahead stood at symbol p, in order
RequestsAt(p) ==
    LET at(r) == r.at = p
        sel == SelectSeq(device_reqs, at)
    IN [j \in 1..Len(sel) |->
           [id |-> sel[j].id, kind |-> sel[j].kind, par |-> sel[j].par]]

C15_Case(k) ==
    /\ src.hdr1 = "ok"
    /\ WellFormedDev(src.devs[k])
    /\ FreshNames(src, k)
    /\ \E e \in line_log : e.sec = "devices" /\ e.from = DevStart(src, k)

(* C15. A well-formed device statement that declares the names n1..nk of
   one kind issues exactly k device-creation requests, one per name in the
   order of the names, all of that kind and with one parameter: the number
   in parentheses when there is one, else 2 for AND/OR/NAND/NOR/XOR, 0 for
   SWITCH and none for DTYPE. *)
C15_OneRequestPerName ==
    \A k \in 1..Len(src.devs) : C15_Case(k) =>
        RequestsAt(DevEnd(src, k)) = ExpectedRequests(src.devs[k])

\* a statement of three names, after another statement, has been parsed
C15_Witness ==
    /\ pc = "done"
    /\ Len(src.devs) = 2
    /\ C15_Case(2)
    /\ Len(src.devs[2].names) = 3
    /\ src.devs[2].par = NoParam
    /\ Len(RequestsAt(DevEnd(src, 2))) = 3

-----------------------------------------------------------------------------
(* The lexemes of a text, as the language defines them *)

\* the last character of the line that holds the p-th character
RECURSIVE LineEnd(_)
LineEnd(p) ==
    IF p >= Len(text) \/ text[p] = "\n" THEN p ELSE LineEnd(p + 1)

\* the last character of the run of letters and digits that holds the p-th
RECURSIVE WordEnd(_)
WordEnd(p) ==
    IF p < Len(text) /\ isalnum(text[p + 1]) THEN WordEnd(p + 1) ELSE p

\* the last character of the run of digits that holds the p-th
RECURSIVE DigitsEnd(_)
DigitsEnd(p) ==
    IF p < Len(text) /\ isdigit(text[p + 1]) THEN DigitsEnd(p + 1) ELSE p

Lexeme(kind, p, e) == [kind |-> kind, text |-> SubSeq(text, p, e), from |-> p]

\* the lexemes of the text from its p-th character on: white space and
\* comments dropped, a character that starts no token kept as "invalid"
RECURSIVE Lexemes(_)
Lexemes(p) ==
    IF p > Len(text) THEN <<>>
    ELSE IF isspace(text[p]) THEN Lexemes(p + 1)
    ELSE IF text[p] = "#" THEN Lexemes(LineEnd(p) + 1)
    ELSE IF isalpha(text[p])
    THEN <<Lexeme("word", p, WordEnd(p))>> \o Lexemes(WordEnd(p) + 1)
    ELSE IF isdigit(text[p])
    THEN <<Lexeme("number", p, DigitsEnd(p))>> \o Lexemes(DigitsEnd(p) + 1)
    ELSE IF text[p] \in {"=", ".", ",", ";", "(", ")", "[", "]"}
    THEN <<Lexeme("punct", p, p)>> \o Lexemes(p + 1)
    ELSE <<Lexeme("invalid", p, p)>> \o Lexemes(p + 1)

\* the text is made of tokens, white space and comments alone
TokensOnly ==
    \A k \in 1..Len(Lexemes(1)) : Lexemes(1)[k].kind # "invalid"

\* the calls so far that returned END
EndCalls == {k \in 1..Len(returned) : returned[k].sym.type = EOF}

FirstEnd == CHOOSE k \in EndCalls : \A j \in EndCalls : k <= j

\* the first character not yet consumed when the k-th call was made
StartOf(k) == IF k = 1 THEN 1 ELSE returned[k - 1].to

\* the diagnostics appended before the k-th call
RECURSIVE ErrorsBefore(_)
ErrorsBefore(k) == IF k <= 1 THEN 0 ELSE ErrorsBefore(k - 1) + returned[k - 1].nerr

\* the diagnostics the k-th call appended
ErrorsOf(k) == SubSeq(scanner_errors, ErrorsBefore(k) + 1,
                      ErrorsBefore(k) + returned[k].nerr)

\* a call of get_symbol is made in this step
Calls == returned' # returned \/ sc_pc' # sc_pc

(* C16. Once get_symbol has returned END, every further call returns END
   again, leaves the line, the column, the current character and the file
   position as they were, and appends no diagnostic. *)
C16_EndIsIdempotent ==
    [][(EndCalls # {} /\ Calls) =>
          /\ Len(returned') = Len(returned) + 1
          /\ returned'[Len(returned')].sym = tEOF
          /\ current_line' = current_line
          /\ current_position' = current_position
          /\ current_character' = current_character
          /\ fpos' = fpos
          /\ scanner_errors' = scanner_errors]_vars

\* END was returned, and returned again by two further calls
C16_Witness ==
    /\ Cardinality(EndCalls) >= 3
    /\ Len(text) > 0

(* C17. For a text made of identifiers, keywords, digit runs, punctuation,
   white space and comments, the symbols returned up to the first END are
   the lexemes of the text in order, white space and comments dropped: as
   many symbols as lexemes, each with the text of its lexeme (a number with
   the value of its digits). *)
C17_SymbolsAreTheLexemes ==
    (TokensOnly /\ EndCalls # {}) =>
        /\ FirstEnd - 1 = Len(Lexemes(1))
        /\ \A k \in 1..(FirstEnd - 1) : k <= Len(Lexemes(1)) =>
              LET l == Lexemes(1)[k] sym == returned[k].sym IN
              IF l.kind = "number"
              THEN sym.type = NUMBER /\ sym.val = IntOf(l.text)
              ELSE sym.name = l.text

(* C18. A run of letters and digits that starts with a letter is returned
   as HEADING when it is devices, conns or monit, as LOGIC when it is one of
   AND, OR, NAND, NOR, XOR, DTYPE, CLOCK, SWITCH, and as NAME otherwise; a
   NAME that equals a reserved word when case is ignored is returned as a
   NAME and appends exactly one INVALID_NAME diagnostic of the scanner,
   every other run appends none. *)
C18_WordsClassified ==
    \A k \in 1..Len(returned) :
        LET p == returned[k].from IN
        (/\ p >= 1 /\ p <= Len(text)
         /\ isalpha(text[p])
         /\ (p = 1 \/ ~isalnum(text[p - 1])))
        => LET w == SubSeq(text, p, WordEnd(p))
               sym == returned[k].sym
               kinds == {sAND, sOR, sNAND, sNOR, sXOR, sDTYPE, sCLOCK, sSWITCH}
               sections == {sDevices, sConns, sMonit}
               reserved == {LowerWord(r) : r \in kinds \cup sections}
           IN /\ sym.name = w
              /\ sym.type = (IF w \in sections THEN HEADING
                             ELSE IF w \in kinds THEN LOGIC ELSE NAME)
              /\ IF sym.type = NAME /\ LowerWord(w) \in reserved
                 THEN /\ returned[k].nerr = 1
                      /\ ErrorsOf(k)[1].code = SC_INVALID_NAME
                 ELSE returned[k].nerr = 0

\* the word And, then a section name, were returned
C18_Witness ==
    \E k \in 1..Len(returned) :
        /\ returned[k].sym = tName(<<"A","n","d">>)
        /\ returned[k].nerr = 1
        /\ k < Len(returned)
        /\ returned[k + 1].sym.type \in {HEADING, LOGIC}

(* C19. A character that starts no token appends exactly one
   INVALID_CHARACTER diagnostic and is consumed: the next call of get_symbol
   starts after it, so that the character is not reported again. *)
C19_InvalidCharacterConsumed ==
    \A k \in 1..Len(returned) :
        (/\ returned[k].sym.type = NONE
         /\ text[returned[k].from] # "#")
        => /\ returned[k].nerr = 1
           /\ ErrorsOf(k)[1].code = SC_INVALID_CHARACTER
           /\ returned[k].to > returned[k].from
           /\ k < Len(returned) => returned[k + 1].from > returned[k].from

(* C20. Each call of get_symbol skips the white space and the comments in
   front of the next token, several comment lines and blank lines between
   them included, and returns that token, END when there is none, without a
   diagnostic for what it skipped. *)
C20_CommentsSkipped ==
    \A k \in 1..Len(returned) :
        LET ls == Lexemes(StartOf(k)) IN
        IF ls = <<>> THEN returned[k].sym = tEOF /\ returned[k].nerr = 0
        ELSE ls[1].kind # "invalid" =>
                /\ returned[k].from = ls[1].from
                /\ returned[k].sym.type # NONE
                /\ \A e \in 1..returned[k].nerr :
                      ErrorsOf(k)[e].code # SC_INVALID_CHARACTER

-----------------------------------------------------------------------------
\* the two statement-list loops
InLoop(p) == p \in {"devices", "conns"}

\* a step that calls the statement parser of the running loop
Invokes ==
    \/ pc = "devices" /\ pc' = "devices"
    \/ pc = "conns" /\ pc' \in {"conns", "sources"}

\* a step that leaves the running loop without calling the statement parser
LeavesLoop ==
    /\ InLoop(pc)
    /\ pc' \in {"conns_block", "return"}
    /\ line_log' = line_log
    /\ line_from' = line_from

OverflowsRecorded(es) ==
    Cardinality({k \in 1..Len(es) : es[k].code = OVERFLOW_ERROR})

(* C21. Each statement-list loop calls its statement parser at most 500
   times; at '[' or at the end of the input it stops without calling it; an
   OVERFLOW_ERROR diagnostic is recorded at most once per loop, exactly when
   the loop is entered for the 501st time on a token that is not '[', a
   heading or the end of the input, and the loop is left then. *)
C21_LoopBounded ==
    [][/\ Invokes =>
            /\ i' <= LoopBound
            /\ Cur(St).type \notin {OPEN_SQUARE_BRACKET, EOF}
       /\ (InLoop(pc) /\ Cur(St).type \in {OPEN_SQUARE_BRACKET, EOF})
            => LeavesLoop
       /\ OverflowsRecorded(errors') # OverflowsRecorded(errors) =>
            /\ InLoop(pc)
            /\ i = LoopBound
            /\ i' = LoopBound + 1
            /\ OverflowsRecorded(errors') = OverflowsRecorded(errors) + 1
            /\ errors'[Len(errors')].code = OVERFLOW_ERROR
            /\ LeavesLoop
       /\ (/\ InLoop(pc)
           /\ i = LoopBound
           /\ Cur(St).type \notin {OPEN_SQUARE_BRACKET, HEADING, EOF})
            => OverflowsRecorded(errors') = OverflowsRecorded(errors) + 1
      ]_vars

\* the devices loop was left on its 501st round, after 500 calls
C21_Witness ==
    /\ pc = "conns_block"
    /\ i = LoopBound + 1
    /\ errors # <<>>
    /\ errors[Len(errors)].code = OVERFLOW_ERROR
    /\ OverflowsRecorded(errors) = 1

\* the statement-parser calls that consumed no symbol
StuckCalls == {e \in line_log : e.to = e.from}

(* C22. The bound of the statement-list loops is no limit on the size of a
   circuit: a pass records OVERFLOW_ERROR only after a statement-parser call
   that consumed no symbol, and never for a file whose sections hold only
   well-formed statements, however many they are. *)
C22_BoundIsNoSizeLimit ==
    HasCode(OVERFLOW_ERROR) =>
        /\ StuckCalls # {}
        /\ ~WellFormedFile(src)

-----------------------------------------------------------------------------
\* how many symbols of '[' name ']' stand at position p: 3 for a full header
HeaderPrefix(p, name) ==
    IF SymAt(p).type # OPEN_SQUARE_BRACKET THEN 0
    ELSE IF ~(SymAt(p + 1).type = HEADING /\ SymAt(p + 1).name = name) THEN 1
    ELSE IF SymAt(p + 2).type # CLOSE_SQUARE_BRACKET THEN 2
    ELSE 3

\* the message that names the n-th symbol of the header of section name
ExpectedMessage(n, name) ==
    CASE n = 0 -> "Expected '['"
      [] n = 1 -> (IF name = sDevices THEN "Expected 'devices'"
                   ELSE "Expected 'conns'")
      [] n = 2 -> "Expected ']'"

\* a step that checks the header of section name, found deviating
DeviatingHeader(at, name) ==
    /\ pc = at
    /\ HeaderPrefix(pos, name) < 3

HeaderRejected(name) ==
    LET n == HeaderPrefix(pos, name) IN
    /\ Len(errors') = Len(errors) + 1
    /\ SubSeq(errors', 1, Len(errors)) = errors
    /\ errors'[Len(errors')].code = INVALID_HEADER
    /\ errors'[Len(errors')].msg = ExpectedMessage(n, name)
    /\ pos' = pos + n
    /\ line_log' = line_log
    /\ device_reqs' = device_reqs
    /\ conn_reqs' = conn_reqs

(* C23. A section header that deviates from '[' name ']' records exactly
   one INVALID_HEADER diagnostic, whose message names the first symbol of
   the header that is missing; the symbol at which the mismatch was found
   stays the current one, and no statement of that section is parsed. *)
C23_HeaderRejectedOnce ==
    /\ [][/\ DeviatingHeader("devices_block", sDevices) =>
               HeaderRejected(sDevices) /\ pc' = "conns_block"
          /\ DeviatingHeader("conns_block", sConns) =>
               HeaderRejected(sConns) /\ pc' = "return"
         ]_vars
    /\ [](/\ src.hdr1 # "ok" => \A e \in line_log : e.sec # "devices"
          /\ src.hdr2 # "ok" => \A e \in line_log : e.sec # "conns")

\* '[' devices without ']' was rejected at the symbol that follows it
C23_Witness ==
    /\ src.hdr1 = "no_close"
    /\ src.devs # <<>>
    /\ pc = "conns_block"
    /\ Len(errors) = 1
    /\ errors[1].code = INVALID_HEADER
    /\ errors[1].msg = "Expected ']'"
    /\ pos = 3

-----------------------------------------------------------------------------
\* the names declared by the statements of f before the k-th
DeclaredBefore(f, k) ==
    UNION {{f.devs[m].names[n] : n \in 1..Len(f.devs[m].names)} :
              m \in 1..(k - 1)}

\* the j-th name of the k-th statement cannot be declared there
NameFails(f, k, j) ==
    LET ns == f.devs[k].names IN
    \/ Classify(ns[j]).type # NAME
    \/ \E m \in 1..(j - 1) : ns[m] = ns[j]
    \/ ns[j] \in DeclaredBefore(f, k)

\* the first name of the k-th statement that fails, 0 when none does
FirstFailing(f, k) ==
    LET J == {j \in 1..Len(f.devs[k].names) : NameFails(f, k, j)}
    IN IF J = {} THEN 0 ELSE CHOOSE j \in J : \A m \in J : j <= m

\* the parser was called at the start of the k-th device statement, whose
\* comma-list holds a name that fails after names that do not
C24_Case(k) ==
    /\ src.hdr1 = "ok"
    /\ src.devs[k].form = "ok"
    /\ FirstFailing(src, k) > 1
    /\ \E e \in line_log : e.sec = "devices" /\ e.from = DevStart(src, k)

(* C24. When a name of a device statement's comma-list fails validation,
   the names accepted before it, the first name of the statement included,
   are in the pending-name set from then on, and once the devices loop has
   ended exactly one diagnostic and no creation request has been recorded
   at the symbols of that statement. *)
C24_FailedListKeepsAccepted ==
    \A k \in 1..Len(src.devs) :
        C24_Case(k) =>
            /\ \A m \in 1..(FirstFailing(src, k) - 1) :
                   \E n \in 1..Len(stored_device_list) :
                       stored_device_list[n] = src.devs[k].names[m]
            /\ pc # "devices" =>
                   /\ Cardinality(ErrorsAt(DevStart(src, k), DevEnd(src, k))) = 1
                   /\ \A r \in 1..Len(device_reqs) :
                          device_reqs[r].at < DevStart(src, k)
                          \/ device_reqs[r].at > DevEnd(src, k)

-----------------------------------------------------------------------------
\* the pin texts of the language: I1 .. I16 and the D-type pins
AcceptedPins == {InputPin(n) : n \in 1..16} \cup {sCLK, sDATA, sQ, sQBAR}

\* the loop over the sources stands at dev '.' pin, dev a known name and pin
\* a word
AtSourcePin ==
    /\ pc = "sources"
    /\ SymAt(pos).type \notin {SEMICOLON, EOF}
    /\ Query(St, SymAt(pos).name)
    /\ SymAt(pos + 1).type = DOT
    /\ SymAt(pos + 2).type \notin {NUMBER, EOF}
    /\ exception = ""

(* C25. check_inputs_name accepts exactly the pin texts I1 .. I16 and CLK,
   DATA, Q, QBAR: an accepted text is added to the pin list without a
   diagnostic, and every other text records exactly one INVALID_NAME
   diagnostic and is not added. *)
C25_PinTextsChecked ==
    [][AtSourcePin =>
          IF SymAt(pos + 2).name \in AcceptedPins
          THEN /\ errors' = errors
               /\ ports_list' = Append(ports_list, SymAt(pos + 2).name)
          ELSE /\ Len(errors') = Len(errors) + 1
               /\ SubSeq(errors', 1, Len(errors)) = errors
               /\ errors'[Len(errors')].code = INVALID_NAME
               /\ ports_list' = ports_list
      ]_vars

-----------------------------------------------------------------------------
\* the wiring of a statement with one source is about to run; the source
\* carries a pin, the last of the pin list
AtOneSource ==
    /\ pc = "wire"
    /\ exception = ""
    /\ Len(device_list) = 2
    /\ Len(ports_list) \in {1, 2}
    /\ Len(ports_list) = 2 => ports_list[1] \in {sQ, sQBAR}

SourceDevice == device_list[2]

SourcePin == ports_list[Len(ports_list)]

\* the step issued exactly one connection request, into pin of SourceDevice,
\* and recorded no diagnostic
OneRequestInto(pin) ==
    /\ Len(conn_reqs') = Len(conn_reqs) + 1
    /\ SubSeq(conn_reqs', 1, Len(conn_reqs)) = conn_reqs
    /\ conn_reqs'[Len(conn_reqs')].in = SourceDevice
    /\ conn_reqs'[Len(conn_reqs')].inpin = pin
    /\ errors' = errors

\* the step recorded exactly one diagnostic, of this code, and issued no request
OneDiagnosticNoRequest(code) ==
    /\ Len(errors') = Len(errors) + 1
    /\ SubSeq(errors', 1, Len(errors)) = errors
    /\ errors'[Len(errors')].code = code
    /\ conn_reqs' = conn_reqs

(* C26. The source d.pin of a connection statement is wired by its pin: CLK
   and DATA go to the fixed pin of that name; I<n> on a declared device with
   m inputs issues, for n <= m, exactly one request into the n-th input and
   no diagnostic, and for n > m records INVALID_PIN and issues no request;
   I<n> on a name that was never declared records INVALID_DEVICE and issues
   no request. *)
C26_SourceWiredByPin ==
    [][AtOneSource =>
          /\ SourcePin \in {sCLK, sDATA} => OneRequestInto(SourcePin)
          /\ (/\ SourcePin \in AcceptedPins \ dtype_pins
              /\ HasDevice(St, SourceDevice)
              /\ IntOf(Tail1(SourcePin)) <= DeviceInputs(St, SourceDevice))
                => OneRequestInto(SourcePin)
          /\ (/\ SourcePin \in AcceptedPins \ dtype_pins
              /\ HasDevice(St, SourceDevice)
              /\ IntOf(Tail1(SourcePin)) > DeviceInputs(St, SourceDevice))
                => OneDiagnosticNoRequest(INVALID_PIN)
          /\ (/\ SourcePin \in AcceptedPins \ dtype_pins
              /\ ~HasDevice(St, SourceDevice))
                => OneDiagnosticNoRequest(INVALID_DEVICE)
      ]_vars

-----------------------------------------------------------------------------
\* a is b with some of its elements left out
RECURSIVE IsSubseq(_, _)
IsSubseq(a, b) ==
    IF a = <<>> THEN TRUE
    ELSE IF b = <<>> THEN FALSE
    ELSE IF Head(a) = Head(b) THEN IsSubseq(Tail(a), Tail(b))
    ELSE IsSubseq(a, Tail(b))

\* the wiring of the k-th connection statement is about to run: the parser
\* started at its first symbol and collected its sink and all its sources,
\* each with a valid pin
C27_Case(k) ==
    LET c == src.conns[k] IN
    /\ pc = "wire"
    /\ exception = ""
    /\ line_from.pos = ConnStart(src, k)
    /\ c.tag \in {<<>>, sQ, sQBAR}
    /\ c.srcs # <<>>
    /\ \A n \in 1..Len(c.srcs) : c.srcs[n].pin \in AcceptedPins
    /\ device_list = <<c.sink>> \o [n \in 1..Len(c.srcs) |-> c.srcs[n].dev]

\* the requests a step issues
NewRequests == SubSeq(conn_reqs', Len(conn_reqs) + 1, Len(conn_reqs'))

(* C27. In a connection statement whose sources each carry a valid pin,
   every request issued has the sink as its source device and, as source
   pin, the Q or QBAR of the sink's suffix, none when the sink has no
   suffix; the requests pair the sources, in their order, each with its own
   pin, and when all the pins are CLK or DATA there is one request per
   source. *)
C27_SinkTagIsSourcePin ==
    [][\A k \in 1..Len(src.conns) :
          C27_Case(k) =>
             LET c == src.conns[k] IN
             /\ SubSeq(conn_reqs', 1, Len(conn_reqs)) = conn_reqs
             /\ \A j \in 1..Len(NewRequests) :
                   /\ NewRequests[j].out = c.sink
                   /\ NewRequests[j].outpin = c.tag
             /\ IsSubseq([j \in 1..Len(NewRequests) |->
                             <<NewRequests[j].in, NewRequests[j].inpin>>],
                         [n \in 1..Len(c.srcs) |->
                             <<c.srcs[n].dev, c.srcs[n].pin>>])
             /\ (\A n \in 1..Len(c.srcs) : c.srcs[n].pin \in {sCLK, sDATA})
                   => Len(NewRequests) = Len(c.srcs)
      ]_vars

\* b.Q = b.DATA, b.CLK; was wired: two requests from b.Q, into DATA and CLK
C27_Witness ==
    /\ pc = "conns"
    /\ Len(conn_reqs) = 2
    /\ conn_reqs[1].outpin = sQ
    /\ conn_reqs[2].outpin = sQ
    /\ conn_reqs[1].inpin = sDATA
    /\ conn_reqs[2].inpin = sCLK
    /\ \E k \in 1..Len(src.conns) :
          /\ line_from.pos = ConnStart(src, k)
          /\ src.conns[k].tag = sQ
          /\ Len(src.conns[k].srcs) = 2

-----------------------------------------------------------------------------
\* the k-th device statement is written d = DTYPE(n); or c = CLOCK; with
\* fresh names, and the parser was called at its first symbol
C28_Case(k) ==
    LET d == src.devs[k] IN
    /\ src.hdr1 = "ok"
    /\ GrammaticalDev(d)
    /\ FreshNames(src, k)
    /\ \/ d.kind = sDTYPE /\ d.par # NoParam
       \/ d.kind = sCLOCK /\ d.par = NoParam
    /\ \E e \in line_log : e.sec = "devices" /\ e.from = DevStart(src, k)

(* C28. DTYPE takes no parameter and CLOCK has no default period: the call
   that parses d = DTYPE(n); or c = CLOCK; records a diagnostic and issues
   no request, and no device of that kind is ever requested from the
   symbols of the statement. *)
C28_NoParameterNoDefault ==
    \A k \in 1..Len(src.devs) :
        C28_Case(k) =>
            /\ \A e \in line_log :
                  (e.sec = "devices" /\ e.from = DevStart(src, k))
                  => e.errs # <<>> /\ e.reqs = 0
            /\ ErrorsAt(DevStart(src, k), DevEnd(src, k)) # {}
            /\ \A r \in 1..Len(device_reqs) :
                  device_reqs[r].kind = src.devs[k].kind
                  => \/ device_reqs[r].at < DevStart(src, k)
                     \/ device_reqs[r].at > DevEnd(src, k)

\* c = CLOCK; a = DTYPE(1); were both parsed from their first symbols and
\* the pass is over
C28_Witness ==
    /\ pc = "done"
    /\ Len(src.devs) = 2
    /\ src.devs[1].kind = sCLOCK
    /\ src.devs[2].kind = sDTYPE
    /\ C28_Case(1)
    /\ C28_Case(2)
    /\ device_reqs = <<>>

-----------------------------------------------------------------------------
(* C29. A pass runs its phases in the order devices, conns: no device is
   requested once a connection has been requested, the pending-name set
   does not change once the devices loop has ended, and no request is ever
   issued to the monitors. *)
C29_DevicesThenConns ==
    /\ [][/\ conn_reqs # <<>> => device_reqs' = device_reqs
          /\ pc \notin {"devices_block", "devices"}
               => stored_device_list' = stored_device_list
         ]_vars
    /\ [](monitor_reqs = <<>>)

\* a pass over a [devices], a [conns] and a [monit] section is over: a
\* device and a connection were requested and a name is pending
C29_Witness ==
    /\ pc = "done"
    /\ src.tail # <<>>
    /\ device_reqs # <<>>
    /\ conn_reqs # <<>>
    /\ stored_device_list # <<>>
    /\ monitor_reqs = <<>>

-----------------------------------------------------------------------------
\* the line feeds among the first p characters of the text
NewlinesBefore(p) == Cardinality({q \in 1..(p - 1) : text[q] = "\n"})

\* the first character of the line that holds the p-th
RECURSIVE LineStart(_)
LineStart(p) ==
    IF p <= 1 \/ text[p - 1] = "\n" THEN p ELSE LineStart(p - 1)

\* the line that holds the p-th character, without its line feed
LineOf(p) ==
    LET e == LineEnd(p)
    IN SubSeq(text, LineStart(p), IF text[e] = "\n" THEN e - 1 ELSE e)

\* the diagnostic d points at the lexeme that starts at the p-th character:
\* its line, its column (counted from 0 or from 1), and the text of its line
PointsAt(d, p) ==
    /\ d.line = NewlinesBefore(p)
    /\ d.col \in {p - LineStart(p), p - LineStart(p) + 1}
    /\ d.content \in {LineOf(p), LineOf(p) \o <<"\n">>}

(* C30. Every diagnostic of the scanner, INVALID_NAME and INVALID_CHARACTER,
   carries the line index of the offending lexeme (the line feeds in front
   of it), the column at which the lexeme starts and the full text of that
   line. The lexeme is the first one after the place the call started from,
   when get_symbol took that one. *)
C30_DiagnosticsLocated ==
    \A k \in 1..Len(returned) :
        LET ls == Lexemes(StartOf(k)) IN
        (ls # <<>> /\ returned[k].from = ls[1].from) =>
            \A e \in 1..returned[k].nerr :
                PointsAt(ErrorsOf(k)[e], ls[1].from)

-----------------------------------------------------------------------------
\* a device statement that is not  name (',' name)* '=' KIND ['(' NUMBER ')'] ';'
UngrammaticalDev(d) == GrammarViolation(d) \/ d.form = "trailing_comma"

\* a connection statement that is not
\* name ['.' ('Q'|'QBAR')] '=' name '.' pin (',' name '.' pin)* ';'
UngrammaticalConn(c) ==
    \/ c.form \in {"no_semicolon", "no_equal"}
    \/ c.form = "no_comma" /\ Len(c.srcs) >= 2
    \/ c.tag \notin {<<>>, sQ, sQBAR}
    \/ c.srcs = <<>>
    \/ \E n \in 1..Len(c.srcs) : c.srcs[n].pin = <<>>

\* a diagnostic was recorded with the lookahead inside the symbols from..to
\* or at the symbol that follows them
DiagnosedAt(from, to) == ErrorsAt(from, to + 1) # {}

(* C31. Every statement that deviates from the grammar of its section
   records at least one diagnostic: when the pass is over, an ungrammatical
   device or connection statement that the parser was called on at its
   first symbol has a diagnostic recorded at one of its symbols or at the
   symbol that follows it, a trailing comma before '=' and sources without
   a comma between them included. *)
C31_NoSilentAcceptance ==
    pc = "done" =>
       /\ \A k \in 1..Len(src.devs) :
             (/\ src.hdr1 = "ok"
              /\ UngrammaticalDev(src.devs[k])
              /\ \E e \in line_log :
                    e.sec = "devices" /\ e.from = DevStart(src, k))
             => DiagnosedAt(DevStart(src, k), DevEnd(src, k))
       /\ \A k \in 1..Len(src.conns) :
             (/\ src.hdr1 = "ok"
              /\ src.hdr2 = "ok"
              /\ UngrammaticalConn(src.conns[k])
              /\ \E e \in line_log :
                    e.sec = "conns" /\ e.from = ConnStart(src, k))
             => DiagnosedAt(ConnStart(src, k), ConnEnd(src, k))

-----------------------------------------------------------------------------
(* C32. get_symbol terminates on every finite text, wherever the text ends:
   no call is left in a loop that reads the end of the file for ever, a
   text that ends inside a comment without a line feed included. *)
C32_GetSymbolReturns == sc_pc # "hung"

-----------------------------------------------------------------------------
\* the device requests issued with the lookahead inside symbols from..to
RequestsWithin(from, to) ==
    {r \in 1..Len(device_reqs) :
        device_reqs[r].at >= from /\ device_reqs[r].at <= to}

\* the diagnostics that reject a statement
Rejecting == {SYNTAX_ERROR, INVALID_LOGIC_GATE, INVALID_NAME, NAME_DEFINED}

\* the parser was called at the first symbol of the k-th device statement
ParsedFromStart(k) ==
    /\ src.hdr1 = "ok"
    /\ src.devs[k].names # <<>>
    /\ \E e \in line_log : e.sec = "devices" /\ e.from = DevStart(src, k)

(* C33. Device creation is all or nothing per statement: the requests
   issued from the symbols of a device statement declaring k names are k or
   none, and a statement at whose symbols a SYNTAX_ERROR, INVALID_LOGIC_GATE,
   INVALID_NAME or NAME_DEFINED diagnostic was recorded has issued no
   request. *)
C33_AllOrNothing ==
    \A k \in 1..Len(src.devs) :
        ParsedFromStart(k) =>
            LET from == DevStart(src, k)
                to == DevEnd(src, k)
            IN /\ Cardinality(RequestsWithin(from, to))
                     \in {0, Len(src.devs[k].names)}
               /\ (\E n \in ErrorsAt(from, to) : errors[n].code \in Rejecting)
                     => RequestsWithin(from, to) = {}

====
